---------------------------- MODULE Spec2Model ----------------------------
(***************************************************************************)
(* Smart Posture Tracker: the posture analysis core                        *)
(* (software/data-analysis/posture_algorithms.py, class PostureAlgorithms).*)
(*                                                                         *)
(* Representation.                                                         *)
(*   - A pandas DataFrame is a record [columns, rows]: the set of column   *)
(*     names and the sequence of rows, each row a function from the        *)
(*     column names to values.                                             *)
(*   - Angles (degrees) and accelerations are fixed-point integers with    *)
(*     Unit steps per degree (per m/s^2), so the threshold 10 degrees is   *)
(*     10 * Unit.  Comparisons of the code are kept exact.                 *)
(*   - confidence is stored in tenths: 9 is 0.9, 8 is 0.8, 7 is 0.7.       *)
(*   - A Python exception leaving a method is the value of `raised`.       *)
(***************************************************************************)
EXTENDS Integers, Sequences, FiniteSets, TLC

VARIABLES
    \* The PostureAlgorithms instance.
    sample_rate,      \* self.sample_rate
    ml_model,         \* self.ml_model
    scaler,           \* self.scaler
    is_trained,       \* self.is_trained
    \* The call in progress on it and what it returned.
    op,               \* the method that ran last, "idle" between calls
    df,               \* the frame that method was called with
    df_clean,         \* return value of preprocess_data
    df_oriented,      \* return value of extract_orientation
    df_features,      \* return value of extract_advanced_features
    df_classified,    \* return value of classify_posture_realtime
    df_final,         \* the frame process_complete_analysis or predict_posture_ml returns
    alert,            \* return value of generate_realtime_alert
    pattern_results,  \* return value of analyze_patterns
    report,           \* analysis_results given to generate_recommendations
    advice,           \* return value of that call
    raised,           \* exception that left the method, or "none"
    \* Threads that call train_ml_model and predict_posture_ml on the instance.
    pc,               \* the statement each thread is at, "idle" outside a call
    training,         \* train_ml_model's training_data and what it returned
    inference,        \* per predict_posture_ml call: df and what it has read
    trainings,        \* number of trainings that reached the scaler
    \* One accelerometer channel put through the outlier step on its own.
    channel,          \* df_clean[col] of one column
    passes,           \* number of times the step has been applied to it
    \* The DualMPU6050Analyzer instance and its serial port.
    is_collecting,    \* self.is_collecting
    data_buffer,      \* self.data_buffer
    csvfile,          \* rows written to the CSV file of the collection
    line,             \* what readline() returned last
    collection,       \* the start_collection call: where it is and its arguments
    reads,            \* number of readline() calls
    serial_connection, \* self.serial_connection: "None", or a port open or closed
    dataframe,        \* what the last get_dataframe call returned
    \* The ArduinoMCPServer instance.
    arduino_port,     \* self.arduino_port: "None" or the name of a port
    arduino_serial_connection, \* self.serial_connection of the server
    tool              \* the last tool call of the server and what it returned

instance == <<sample_rate, ml_model, scaler, is_trained>>

stages == <<df_clean, df_oriented, df_features, df_final>>

results_of_calls == <<df, stages, df_classified, alert, pattern_results,
                      report, advice, raised>>

results == <<op, results_of_calls>>

threads == <<pc, training, inference, trainings>>

aside == <<channel, passes>>

collector == <<is_collecting, data_buffer, csvfile, line, collection, reads,
               serial_connection, dataframe>>

arduino == <<arduino_port, arduino_serial_connection, tool>>

vars == <<instance, results, threads, aside, collector, arduino>>

\* generate_realtime_alert returning None: no alert.
NoAlert == [level |-> "none"]

\* Fixed-point resolution: steps per degree.
Unit == 1000

\* Longest run of equal rows put in front of the last row of a short series.
MaxRep == 1

\* Longest series given to analyze_patterns.
MaxLen == 650

\* Longest series given to process_complete_analysis.
MaxRawLen == 60

\* Longest series of process_complete_analysis with a sample that stands out.
MaxSpikeLen == 16

\* Trainings that get past the checks of train_ml_model.
MaxTrainings == 2

\* Times the outlier step is applied to one channel.
MaxPasses == 2

\* Lines read from the serial port.
MaxLines == 3

\* buffer_size of the DualMPU6050Analyzer under study.
BufferSize == 2

(***************************************************************************)
(* Helpers on sequences and frames.                                        *)
(***************************************************************************)
Abs(x) == IF x < 0 THEN -x ELSE x

Min(a, b) == IF a < b THEN a ELSE b

Rep(x, n) == [i \in 1..n |-> x]

Frame(cols, rows) == [columns |-> cols, rows |-> rows]

NoFrame == Frame({}, <<>>)

\* len(df)
len(d) == Len(d.rows)

\* df[c] = values: a new or replaced column, values[i] in row i.
WithColumn(d, c, values) ==
    Frame(d.columns \cup {c},
          [i \in 1..len(d) |->
              [k \in d.columns \cup {c} |-> IF k = c THEN values[i] ELSE d.rows[i][k]]])

(***************************************************************************)
(* PostureAlgorithms.__init__                                              *)
(***************************************************************************)
thresholds ==
    [forward_head_mild        |-> 10,
     forward_head_severe      |-> 20,
     hunched_shoulders_mild   |-> 15,
     hunched_shoulders_severe |-> 25,
     side_lean_mild           |-> 8,
     side_lean_severe         |-> 15,
     movement_threshold       |-> 3,
     stability_threshold      |-> 2]

filter_params == [lowpass_cutoff |-> 3, order |-> 4]

\* Feature extraction parameters: seconds for feature calculation
feature_window == 30

AccelColumns ==
    {"s1_accel_x", "s1_accel_y", "s1_accel_z", "s2_accel_x", "s2_accel_y", "s2_accel_z"}

GyroColumns ==
    {"s1_gyro_x", "s1_gyro_y", "s1_gyro_z", "s2_gyro_x", "s2_gyro_y", "s2_gyro_z"}

RawColumns == {"timestamp"} \cup AccelColumns \cup GyroColumns

\* x[lo] + ... + x[hi]
RECURSIVE Sum(_, _, _)
Sum(x, lo, hi) ==
    IF lo > hi THEN 0
    ELSE IF lo = hi THEN x[lo]
    ELSE LET mid == (lo + hi) \div 2
         IN  Sum(x, lo, mid) + Sum(x, mid + 1, hi)

\* The largest r in lo..hi with r * r <= n.
RECURSIVE SqrtBetween(_, _, _)
SqrtBetween(n, lo, hi) ==
    IF lo = hi THEN lo
    ELSE LET mid == (lo + hi + 1) \div 2
         IN  IF mid * mid <= n THEN SqrtBetween(n, mid, hi)
                               ELSE SqrtBetween(n, lo, mid - 1)

\* np.sqrt on the fixed-point grid: the square root rounded down.
sqrt(n) == SqrtBetween(n, 0, 46340)

\* df[c] as a sequence
Column(d, c) == [i \in 1..len(d) |-> d.rows[i][c]]

(***************************************************************************)
(* preprocess_data                                                         *)
(***************************************************************************)
\* 1. Remove outliers (3-sigma rule) of one channel.  mean and std (pandas:
\* n - 1 in the denominator, NaN for a single row, so no row is an outlier
\* then) are taken over the whole channel once;
\* |x - mean| > 3 * std is decided exactly, as
\* (n x - S)^2 (n - 1) > 9 n (n Q - S^2) on the offsets from x[1], and the mean
\* written is rounded down to the fixed-point grid.
remove_outliers(x) ==
    LET n == Len(x)
        d == [i \in 1..n |-> x[i] - x[1]]
        S == Sum(d, 1, n)
        Q == Sum([i \in 1..n |-> d[i] * d[i]], 1, n)
        mean == x[1] + S \div n
        outlier_mask(i) ==
            n >= 2 /\ (n * d[i] - S) * (n * d[i] - S) * (n - 1) > 9 * n * (n * Q - S * S)
    IN  [i \in 1..n |-> IF outlier_mask(i) THEN mean ELSE x[i]]

\* if self.filter_params['lowpass_cutoff'] < nyquist, with nyquist = rate / 2
lowpass_enabled(rate) == 2 * filter_params.lowpass_cutoff < rate

\* scipy.signal.filtfilt pads both ends with padlen = 3 * max(len(a), len(b))
\* samples; butter(order, ...) gives order + 1 coefficients.
filtfilt_padlen == 3 * (filter_params.order + 1)

\* filtfilt raises ValueError ("The length of the input vector x must be
\* greater than padlen") unless len(x) > padlen.
filtfilt_raises(x) == Len(x) <= filtfilt_padlen

\* filtfilt(b, a, x) for the Butterworth low-pass of butter(order, cutoff /
\* nyquist): zero phase and gain 1 at frequency 0, so a constant channel
\* comes back unchanged.  Series that reach the filter are constant in every
\* channel (RawFrames), which is the case this definition covers.
filtfilt(x) == [i \in 1..Len(x) |-> x[i]]

\* savgol_filter(x, window_length=5, polyorder=2), mode 'interp': the value
\* at i of the parabola fitted by least squares to the 5 samples centred at
\* i; for the first and last two samples, of the parabola fitted to the
\* first, respectively last, 5 samples.  Rounded down to the grid.
savgol_filter(x) ==
    LET n == Len(x)
        first(i) == IF i = 1
                        THEN 31 * x[1] + 9 * x[2] - 3 * x[3] - 5 * x[4] + 3 * x[5]
                        ELSE 9 * x[1] + 13 * x[2] + 12 * x[3] + 6 * x[4] - 5 * x[5]
        last(i) == IF i = n
                       THEN 31 * x[n] + 9 * x[n-1] - 3 * x[n-2] - 5 * x[n-3] + 3 * x[n-4]
                       ELSE 9 * x[n] + 13 * x[n-1] + 12 * x[n-2] + 6 * x[n-3] - 5 * x[n-4]
        centre(i) == -3 * x[i-2] + 12 * x[i-1] + 17 * x[i] + 12 * x[i+1] - 3 * x[i+2]
    IN  [i \in 1..n |->
            (IF i <= 2 THEN first(i) ELSE IF i >= n - 1 THEN last(i) ELSE centre(i))
                \div 35]

\* Step 1 on the six accelerometer channels.
outliers_removed(d) ==
    LET clean == [c \in AccelColumns |-> remove_outliers(Column(d, c))]
    IN  Frame(d.columns,
              [i \in 1..Len(clean["s1_accel_x"]) |->
                  [k \in d.columns |->
                      IF k \in AccelColumns THEN clean[k][i] ELSE d.rows[i][k]]])

\* Step 2 on the twelve channels, where it does not raise.
lowpassed(d, rate) ==
    IF lowpass_enabled(rate) /\ len(d) > 2 * filter_params.order
        THEN LET y == [c \in AccelColumns \cup GyroColumns |-> filtfilt(Column(d, c))]
             IN  Frame(d.columns,
                       [i \in 1..len(d) |->
                           [k \in d.columns |->
                               IF k \in AccelColumns \cup GyroColumns
                                   THEN y[k][i] ELSE d.rows[i][k]]])
        ELSE d

\* Step 3 on the six gyroscope channels.
smoothed(d) ==
    IF len(d) >= 5
        THEN LET y == [c \in GyroColumns |-> savgol_filter(Column(d, c))]
             IN  Frame(d.columns,
                       [i \in 1..len(d) |->
                           [k \in d.columns |->
                               IF k \in GyroColumns THEN y[k][i] ELSE d.rows[i][k]]])
        ELSE d

\* The frame returned, or the exception of filtfilt on the first channel.
preprocess_data(d, rate) ==
    LET cleaned == outliers_removed(d)
    IN  IF /\ lowpass_enabled(rate)
           /\ len(cleaned) > 2 * filter_params.order
           /\ filtfilt_raises(Column(cleaned, "s1_accel_x"))
            THEN [raised |-> "ValueError", value |-> NoFrame]
            ELSE [raised |-> "none", value |-> smoothed(lowpassed(cleaned, rate))]

(***************************************************************************)
(* extract_orientation                                                     *)
(***************************************************************************)
\* 1000 * tan(d degrees) for d = 1..89, rounded.
TanTable ==
    <<17, 35, 52, 70, 87, 105, 123, 141, 158, 176, 194, 213, 231, 249, 268,
      287, 306, 325, 344, 364, 384, 404, 424, 445, 466, 488, 510, 532, 554, 577,
      601, 625, 649, 675, 700, 727, 754, 781, 810, 839, 869, 900, 933, 966, 1000,
      1036, 1072, 1111, 1150, 1192, 1235, 1280, 1327, 1376, 1428, 1483, 1540,
      1600, 1664, 1732, 1804, 1881, 1963, 2050, 2145, 2246, 2356, 2475, 2605,
      2747, 2904, 3078, 3271, 3487, 3732, 4011, 4331, 4705, 5145, 5671, 6314,
      7115, 8144, 9514, 11430, 14301, 19081, 28636, 57290>>

\* arctan(y / x) in whole degrees, rounded down, for y >= 0 and x > 0.
arctan_degrees(y, x) ==
    Cardinality({d \in 1..89 : TanTable[d] * x <= 1000 * y})

\* np.arctan2(y, x) * 180 / np.pi in fixed point, to the whole degree.
arctan2(y, x) ==
    Unit * (IF x > 0 THEN (IF y >= 0 THEN arctan_degrees(y, x)
                                     ELSE -arctan_degrees(-y, x))
            ELSE IF x = 0 THEN (IF y > 0 THEN 90 ELSE IF y < 0 THEN -90 ELSE 0)
            ELSE (IF y >= 0 THEN 180 - arctan_degrees(y, -x)
                            ELSE -(180 - arctan_degrees(-y, -x))))

OrientationColumns ==
    {"s1_pitch", "s1_roll", "s2_pitch", "s2_roll", "spine_pitch_curvature",
     "spine_roll_curvature", "spine_curvature_magnitude"}

orientation(r) ==
    LET s1_pitch == arctan2(-r["s1_accel_x"],
                            sqrt(r["s1_accel_y"] * r["s1_accel_y"]
                                 + r["s1_accel_z"] * r["s1_accel_z"]))
        s1_roll == arctan2(r["s1_accel_y"], r["s1_accel_z"])
        s2_pitch == arctan2(-r["s2_accel_x"],
                            sqrt(r["s2_accel_y"] * r["s2_accel_y"]
                                 + r["s2_accel_z"] * r["s2_accel_z"]))
        s2_roll == arctan2(r["s2_accel_y"], r["s2_accel_z"])
        spine_pitch_curvature == s1_pitch - s2_pitch
        spine_roll_curvature == s1_roll - s2_roll
    IN  [s1_pitch |-> s1_pitch, s1_roll |-> s1_roll,
         s2_pitch |-> s2_pitch, s2_roll |-> s2_roll,
         spine_pitch_curvature |-> spine_pitch_curvature,
         spine_roll_curvature |-> spine_roll_curvature,
         spine_curvature_magnitude |->
             sqrt(spine_pitch_curvature * spine_pitch_curvature
                  + spine_roll_curvature * spine_roll_curvature)]

extract_orientation(d) ==
    Frame(d.columns \cup OrientationColumns,
          [i \in 1..len(d) |->
              LET o == orientation(d.rows[i])
              IN  [k \in d.columns \cup OrientationColumns |->
                      IF k \in OrientationColumns THEN o[k] ELSE d.rows[i][k]]])

(***************************************************************************)
(* extract_advanced_features                                               *)
(***************************************************************************)
Max(a, b) == IF a > b THEN a ELSE b

\* x.rolling(window, min_periods).std().fillna(0) at row i: the standard
\* deviation (n - 1 in the denominator) of the rows of the trailing window,
\* NaN, filled with 0, when the window holds fewer than min_periods rows.
\* The mean is rounded down to the grid and the root is rounded down.
rolling_std(x, window, min_periods, i) ==
    LET lo == Max(1, i - window + 1)
        k == i - lo + 1
        mean == Sum(x, lo, i) \div k
        squares == [j \in lo..i |-> (x[j] - mean) * (x[j] - mean)]
    IN  IF k < min_periods THEN 0 ELSE sqrt(Sum(squares, lo, i) \div (k - 1))

\* x.diff().rolling(window=5, min_periods=2).mean().fillna(0) at row i: the
\* mean of the differences x[j] - x[j-1] in the trailing window of 5 rows (the
\* difference of row 1 is NaN and is not counted), 0 when fewer than 2 are there.
rolling_velocity(x, i) ==
    LET lo == Max(2, i - 4)
        k == i - lo + 1
    IN  IF k < 2 THEN 0 ELSE (x[i] - x[lo - 1]) \div k

\* np.cumsum(|gyro_x| + |gyro_y| + |gyro_z|) * self.dt at row i, dt = 1 / rate
cumulative_rotation(d, gyro, rate, i) ==
    Sum([j \in 1..i |-> Abs(d.rows[j][gyro[1]]) + Abs(d.rows[j][gyro[2]])
                        + Abs(d.rows[j][gyro[3]])], 1, i) \div rate

AdvancedColumns ==
    {"s1_movement_variability", "s2_movement_variability", "spine_stability",
     "s1_pitch_velocity", "s2_pitch_velocity",
     "s1_pitch_acceleration", "s2_pitch_acceleration",
     "s1_cumulative_rotation", "s2_cumulative_rotation"}

\* Rolling window statistics (30-second windows)
window_samples(d, rate) == Min(feature_window * rate, len(d))

advanced_features(d, rate, i) ==
    LET w == window_samples(d, rate)
        s1_pitch == Column(d, "s1_pitch")
        s2_pitch == Column(d, "s2_pitch")
        magnitude == Column(d, "spine_curvature_magnitude")
    IN  [s1_movement_variability |-> rolling_std(s1_pitch, w, 5, i),
         s2_movement_variability |-> rolling_std(s2_pitch, w, 5, i),
         spine_stability |-> rolling_std(magnitude, w, 5, i),
         s1_pitch_velocity |-> rolling_velocity(s1_pitch, i),
         s2_pitch_velocity |-> rolling_velocity(s2_pitch, i),
         s1_pitch_acceleration |->
             IF i = 1 THEN 0
             ELSE rolling_velocity(s1_pitch, i) - rolling_velocity(s1_pitch, i - 1),
         s2_pitch_acceleration |->
             IF i = 1 THEN 0
             ELSE rolling_velocity(s2_pitch, i) - rolling_velocity(s2_pitch, i - 1),
         s1_cumulative_rotation |-> cumulative_rotation(d, <<"s1_gyro_x", "s1_gyro_y", "s1_gyro_z">>, rate, i),
         s2_cumulative_rotation |-> cumulative_rotation(d, <<"s2_gyro_x", "s2_gyro_y", "s2_gyro_z">>, rate, i)]

extract_advanced_features(d, rate) ==
    Frame(d.columns \cup AdvancedColumns,
          [i \in 1..len(d) |->
              LET f == IF window_samples(d, rate) >= 10
                           THEN advanced_features(d, rate, i)
                           ELSE [k \in AdvancedColumns |-> 0]
              IN  [k \in d.columns \cup AdvancedColumns |->
                      IF k \in AdvancedColumns THEN f[k] ELSE d.rows[i][k]]])

(***************************************************************************)
(* classify_posture_realtime: one pass of the loop body for row i.         *)
(***************************************************************************)
\* Variant of forward_head: the mild tier adds nothing to severity.
forward_head_mild_adds_0(r) ==
    IF r["s1_pitch"] > thresholds.forward_head_severe * Unit
        THEN [issues |-> <<"severe_forward_head">>, severity |-> 3]
    ELSE IF r["s1_pitch"] > thresholds.forward_head_mild * Unit
        THEN [issues |-> <<"mild_forward_head">>, severity |-> 0]
    ELSE [issues |-> <<>>, severity |-> 0]

\* 1. Forward Head Posture Detection
forward_head(r) ==
    IF r["s1_pitch"] > thresholds.forward_head_severe * Unit
        THEN [issues |-> <<"severe_forward_head">>, severity |-> 3]
    ELSE IF r["s1_pitch"] > thresholds.forward_head_mild * Unit
        THEN [issues |-> <<"mild_forward_head">>, severity |-> 1]
    ELSE [issues |-> <<>>, severity |-> 0]

\* Variant of hunched_shoulders: the severe tier adds nothing to severity.
hunched_shoulders_severe_adds_0(r) ==
    IF r["spine_pitch_curvature"] > thresholds.hunched_shoulders_severe * Unit
        THEN [issues |-> <<"severe_hunched">>, severity |-> 0]
    ELSE IF r["spine_pitch_curvature"] > thresholds.hunched_shoulders_mild * Unit
        THEN [issues |-> <<"mild_hunched">>, severity |-> 1]
    ELSE [issues |-> <<>>, severity |-> 0]

\* 2. Hunched Shoulders Detection
hunched_shoulders(r) ==
    IF r["spine_pitch_curvature"] > thresholds.hunched_shoulders_severe * Unit
        THEN [issues |-> <<"severe_hunched">>, severity |-> 3]
    ELSE IF r["spine_pitch_curvature"] > thresholds.hunched_shoulders_mild * Unit
        THEN [issues |-> <<"mild_hunched">>, severity |-> 1]
    ELSE [issues |-> <<>>, severity |-> 0]

\* Variant of side_lean: the severe tier weighted like the other criteria.
side_lean_severe_adds_3(r) ==
    IF Abs(r["spine_roll_curvature"]) > thresholds.side_lean_severe * Unit
        THEN [issues |-> <<"severe_side_lean">>, severity |-> 3]
    ELSE IF Abs(r["spine_roll_curvature"]) > thresholds.side_lean_mild * Unit
        THEN [issues |-> <<"mild_side_lean">>, severity |-> 1]
    ELSE [issues |-> <<>>, severity |-> 0]

\* 3. Side Lean Detection
side_lean(r) ==
    IF Abs(r["spine_roll_curvature"]) > thresholds.side_lean_severe * Unit
        THEN [issues |-> <<"severe_side_lean">>, severity |-> 2]
    ELSE IF Abs(r["spine_roll_curvature"]) > thresholds.side_lean_mild * Unit
        THEN [issues |-> <<"mild_side_lean">>, severity |-> 1]
    ELSE [issues |-> <<>>, severity |-> 0]

\* Variant of movement: excessive movement adds 1 to severity.
movement_adding_severity(cols, r) ==
    IF "spine_stability" \in cols
        THEN IF r["spine_stability"] > thresholds.movement_threshold * Unit
                 THEN [issues |-> <<"excessive_movement">>, severity |-> 1]
             ELSE IF r["spine_stability"] < thresholds.stability_threshold * Unit
                 THEN [issues |-> <<"static_posture">>, severity |-> 0]
             ELSE [issues |-> <<>>, severity |-> 0]
    ELSE [issues |-> <<>>, severity |-> 0]

\* 4. Movement Analysis: only when the frame has a spine_stability column;
\* it appends an issue and adds nothing to severity.
movement(cols, r) ==
    IF "spine_stability" \in cols
        THEN IF r["spine_stability"] > thresholds.movement_threshold * Unit
                 THEN [issues |-> <<"excessive_movement">>, severity |-> 0]
             ELSE IF r["spine_stability"] < thresholds.stability_threshold * Unit
                 THEN [issues |-> <<"static_posture">>, severity |-> 0]
             ELSE [issues |-> <<>>, severity |-> 0]
    ELSE [issues |-> <<>>, severity |-> 0]

\* posture_issues and severity after the four checks, in the code's order.
posture_issues(cols, r) ==
    forward_head(r).issues \o hunched_shoulders(r).issues
        \o side_lean(r).issues \o movement(cols, r).issues

severity(cols, r) ==
    forward_head(r).severity + hunched_shoulders(r).severity
        + side_lean(r).severity + movement(cols, r).severity

\* Determine primary posture label
posture_label(issues) ==
    IF issues = <<>> THEN "good_posture"
    ELSE IF Len(issues) = 1 THEN issues[1]
    ELSE "multiple_issues"

\* Variant of confidence: the single-issue branch missing.
confidence_without_single(issues) ==
    IF issues = <<>> THEN 9 ELSE 7

confidence(issues) ==
    IF issues = <<>> THEN 9
    ELSE IF Len(issues) = 1 THEN 8
    ELSE 7

severity_score(cols, r) == Min(severity(cols, r), 10)

\* Variant of classify_posture_realtime: a row is classified from the row
\* before it.
classify_posture_realtime_with_hysteresis(d) ==
    LET init == WithColumn(WithColumn(WithColumn(d,
                    "posture_label", Rep("unknown", len(d))),
                    "severity_score", Rep(0, len(d))),
                    "confidence", Rep(0, len(d)))
        body(i) == LET r == d.rows[IF i > 1 THEN i - 1 ELSE i]
                       issues == posture_issues(d.columns, r)
                   IN  [init.rows[i] EXCEPT
                           !["posture_label"] = posture_label(issues),
                           !["confidence"] = confidence(issues),
                           !["severity_score"] = severity_score(d.columns, r)]
    IN  Frame(init.columns, [i \in 1..len(d) |-> body(i)])

\* The frame returned: a copy of df with the three columns, first set to
\* 'unknown', 0, 0 for every row and then overwritten row by row by the loop.
classify_posture_realtime(d) ==
    LET init == WithColumn(WithColumn(WithColumn(d,
                    "posture_label", Rep("unknown", len(d))),
                    "severity_score", Rep(0, len(d))),
                    "confidence", Rep(0, len(d)))
        body(i) == LET r == d.rows[i]
                       issues == posture_issues(d.columns, r)
                   IN  [init.rows[i] EXCEPT
                           !["posture_label"] = posture_label(issues),
                           !["confidence"] = confidence(issues),
                           !["severity_score"] = severity_score(d.columns, r)]
    IN  Frame(init.columns, [i \in 1..len(d) |-> body(i)])

(***************************************************************************)
(* generate_realtime_alert                                                 *)
(***************************************************************************)
\* Variant of generate_realtime_alert: high level only above 3.
generate_realtime_alert_high_above_3(current_data) ==
    IF "severity_score" \notin current_data.columns
        THEN [raised |-> "none", value |-> NoAlert]
    ELSE IF len(current_data) = 0
        THEN [raised |-> "IndexError", value |-> NoAlert]
    ELSE LET latest_severity == current_data.rows[len(current_data)]["severity_score"]
             latest_posture == current_data.rows[len(current_data)]["posture_label"]
         IN  IF latest_severity > 3
                 THEN [raised |-> "none",
                       value |-> [level |-> "high",
                                  message |-> <<"Posture Alert", latest_posture>>,
                                  action |-> "Adjust posture immediately",
                                  type |-> "vibration"]]
             ELSE IF latest_severity >= 1
                 THEN [raised |-> "none",
                       value |-> [level |-> "medium",
                                  message |-> <<"Posture Notice", latest_posture>>,
                                  action |-> "Consider adjusting position",
                                  type |-> "notification"]]
             ELSE [raised |-> "none", value |-> NoAlert]

\* The value returned, or the exception raised by iloc[-1] on an empty frame.
generate_realtime_alert(current_data) ==
    IF "severity_score" \notin current_data.columns
        THEN [raised |-> "none", value |-> NoAlert]
    ELSE IF len(current_data) = 0
        THEN [raised |-> "IndexError", value |-> NoAlert]
    ELSE LET latest_severity == current_data.rows[len(current_data)]["severity_score"]
             latest_posture == current_data.rows[len(current_data)]["posture_label"]
         IN  IF latest_severity >= 3
                 THEN [raised |-> "none",
                       value |-> [level |-> "high",
                                  message |-> <<"Posture Alert", latest_posture>>,
                                  action |-> "Adjust posture immediately",
                                  type |-> "vibration"]]
             ELSE IF latest_severity >= 1
                 THEN [raised |-> "none",
                       value |-> [level |-> "medium",
                                  message |-> <<"Posture Notice", latest_posture>>,
                                  action |-> "Consider adjusting position",
                                  type |-> "notification"]]
             ELSE [raised |-> "none", value |-> NoAlert]

(***************************************************************************)
(* Python dicts are functions from their keys; percentages and slopes are  *)
(* exact rationals [num, den] with den > 0, so that the comparisons of the *)
(* code with 30, 25, 20, 70, 50 and 0.01 are decided without rounding.     *)
(***************************************************************************)
EmptyDict == [k \in {} |-> 0]

\* dict.get(key, default)
Get(dict, key, default) == IF key \in DOMAIN dict THEN dict[key] ELSE default

Rat(n, d) == [num |-> n, den |-> d]

RatAdd(a, b) == Rat(a.num * b.den + b.num * a.den, a.den * b.den)

\* a > k and a < k for an integer k
RatGt(a, k) == a.num > k * a.den

RatLt(a, k) == a.num < k * a.den

(***************************************************************************)
(* generate_recommendations                                                *)
(***************************************************************************)
\* Variant of Top6: the list returned whole.
Top6_untruncated(recommendations) == recommendations

\* recommendations[:6]
Top6(recommendations) == SubSeq(recommendations, 1, Min(6, Len(recommendations)))

\* Forward Head Posture recommendations
forward_head_recommendations(posture_dist, trends) ==
    LET fh_issues == RatAdd(Get(posture_dist, "severe_forward_head", Rat(0, 1)),
                            Get(posture_dist, "mild_forward_head", Rat(0, 1)))
    IN  IF RatGt(fh_issues, 30)
            THEN <<"Forward Head Posture Alert: Adjust monitor height to eye level",
                   "Exercise: Chin tucks (10 reps every hour)">>
                 \o (IF Get(trends, "forward_head_trend", "absent") = "worsening"
                         THEN <<"Trend Alert: Forward head posture is getting worse - take immediate action!">>
                         ELSE <<>>)
            ELSE <<>>

\* Hunched Shoulders recommendations
hunched_recommendations(posture_dist) ==
    LET hunched_issues == RatAdd(Get(posture_dist, "severe_hunched", Rat(0, 1)),
                                 Get(posture_dist, "mild_hunched", Rat(0, 1)))
    IN  IF RatGt(hunched_issues, 25)
            THEN <<"Hunched Shoulders Detected: Focus on shoulder blade squeezes",
                   "Stretching: Doorway chest stretch (30 seconds, 3 times)">>
            ELSE <<>>

\* Side Lean recommendations
side_lean_recommendations(posture_dist) ==
    LET side_issues == RatAdd(Get(posture_dist, "severe_side_lean", Rat(0, 1)),
                              Get(posture_dist, "mild_side_lean", Rat(0, 1)))
    IN  IF RatGt(side_issues, 20)
            THEN <<"Side Lean Detected: Check chair height and desk setup",
                   "Exercise: Side planks for core strengthening">>
            ELSE <<>>

\* Movement recommendations
movement_recommendations(trends) ==
    LET movement_pattern == Get(trends, "movement_pattern", "unknown")
    IN  IF movement_pattern = "too_static"
            THEN <<"Movement Alert: Take a 2-minute movement break every 30 minutes",
                   "Set hourly reminders to change position">>
        ELSE IF movement_pattern = "highly_dynamic"
            THEN <<"Consider if discomfort is causing excessive movement",
                   "Check ergonomic setup - chair and desk height">>
        ELSE <<>>

\* Overall posture score
overall_recommendations(posture_dist) ==
    LET good_posture == Get(posture_dist, "good_posture", Rat(0, 1))
    IN  IF RatGt(good_posture, 70)
            THEN <<"Excellent work! Maintain current habits">>
        ELSE IF RatGt(good_posture, 50)
            THEN <<"Good progress - minor adjustments needed">>
        ELSE IF RatLt(good_posture, 30)
            THEN <<"Significant improvement needed - consider ergonomic assessment">>
        ELSE <<>>

\* Trend-based recommendations
trend_recommendations(trends) ==
    IF Get(trends, "spine_curvature_trend", "absent") = "improving"
        THEN <<"Great news! Your posture is improving over time">>
    ELSE IF Get(trends, "spine_curvature_trend", "absent") = "worsening"
        THEN <<"Warning: Posture declining - review workspace setup">>
    ELSE <<>>

\* Variant of all_recommendations: the overall score is appended first.
all_recommendations_score_first(posture_dist, trends) ==
    overall_recommendations(posture_dist)
        \o forward_head_recommendations(posture_dist, trends)
        \o hunched_recommendations(posture_dist)
        \o side_lean_recommendations(posture_dist)
        \o movement_recommendations(trends)
        \o trend_recommendations(trends)

\* The list before the final slice, in the order the code appends.
all_recommendations(posture_dist, trends) ==
    forward_head_recommendations(posture_dist, trends)
        \o hunched_recommendations(posture_dist)
        \o side_lean_recommendations(posture_dist)
        \o movement_recommendations(trends)
        \o overall_recommendations(posture_dist)
        \o trend_recommendations(trends)

generate_recommendations(analysis_results) ==
    IF "posture_distribution" \notin DOMAIN analysis_results
        THEN <<"Continue monitoring for personalized recommendations">>
        ELSE Top6(all_recommendations(analysis_results["posture_distribution"],
                                      Get(analysis_results, "trends", EmptyDict)))

(***************************************************************************)
(* analyze_patterns                                                        *)
(***************************************************************************)
\* df.tail(n)
tail(d, n) == Frame(d.columns, SubSeq(d.rows, len(d) - n + 1, len(d)))

\* np.polyfit(range(len(y)), y, 1)[0]: the least-squares slope of y against
\* the sample index 0..n-1, sum((x - mean x) * y) / sum((x - mean x)^2), as a
\* rational in fixed-point units per sample.  With u = 2x - (n-1) = 2(x - mean x)
\* it is 2 * sum(u * (y - y[1])) / sum(u * u); sum(u) = 0, so the offset y[1]
\* changes nothing.
polyfit_slope(y) ==
    LET n == Len(y)
        u(i) == 2 * (i - 1) - (n - 1)
    IN  Rat(2 * Sum([i \in 1..n |-> u(i) * (y[i] - y[1])], 1, n),
            Sum([i \in 1..n |-> u(i) * u(i)], 1, n))

\* 0.01 in fixed point (Unit is a multiple of 100).
Hundredth == Unit \div 100

\* Variant of trend: slopes of exactly -0.01 and 0.01 are outside the band.
trend_with_open_band(slope) ==
    IF slope.num <= -(Hundredth * slope.den) THEN "improving"
    ELSE IF slope.num >= Hundredth * slope.den THEN "worsening"
    ELSE "stable"

\* Variant of trend: the dead band is 0.02 wide on each side.
trend_with_doubled_band(slope) ==
    IF slope.num < -(2 * Hundredth * slope.den) THEN "improving"
    ELSE IF slope.num > 2 * Hundredth * slope.den THEN "worsening"
    ELSE "stable"

\* 'improving' if slope < -0.01 else 'worsening' if slope > 0.01 else 'stable'
trend(slope) ==
    IF slope.num < -(Hundredth * slope.den) THEN "improving"
    ELSE IF slope.num > Hundredth * slope.den THEN "worsening"
    ELSE "stable"

\* Variant of movement_pattern: a mean of exactly 2 is moderately_active.
movement_pattern_active_from_2(stability) ==
    LET avg_movement == Rat(Sum(stability, 1, Len(stability)), Len(stability) * Unit)
    IN  IF RatGt(avg_movement, 4) THEN "highly_dynamic"
        ELSE IF ~RatLt(avg_movement, 2) THEN "moderately_active"
        ELSE IF 2 * avg_movement.num < avg_movement.den THEN "too_static"
        ELSE "optimal"

\* Movement pattern analysis: avg_movement = mean of spine_stability.
movement_pattern(stability) ==
    LET avg_movement == Rat(Sum(stability, 1, Len(stability)), Len(stability) * Unit)
    IN  IF RatGt(avg_movement, 4) THEN "highly_dynamic"
        ELSE IF RatGt(avg_movement, 2) THEN "moderately_active"
        ELSE IF 2 * avg_movement.num < avg_movement.den THEN "too_static"
        ELSE "optimal"

\* 1. Posture Distribution Analysis: value_counts() and (count / total) * 100
posture_distribution(recent_data) ==
    LET labels == Column(recent_data, "posture_label")
        total_samples == len(recent_data)
        count(l) == Cardinality({i \in 1..total_samples : labels[i] = l})
    IN  [l \in {labels[i] : i \in 1..total_samples} |->
            Rat(count(l) * 100, total_samples)]

\* 2. Trend Analysis
trends_of(recent_data) ==
    (IF "s1_pitch" \in recent_data.columns
         THEN "forward_head_trend" :>
                  trend(polyfit_slope(Column(recent_data, "s1_pitch")))
         ELSE EmptyDict)
    @@ (IF "spine_curvature_magnitude" \in recent_data.columns
            THEN "spine_curvature_trend" :>
                     trend(polyfit_slope(Column(recent_data, "spine_curvature_magnitude")))
            ELSE EmptyDict)
    @@ (IF "spine_stability" \in recent_data.columns
            THEN "movement_pattern" :>
                     movement_pattern(Column(recent_data, "spine_stability"))
            ELSE EmptyDict)

\* f'{len(recent_data) / self.sample_rate / 60:.1f} minutes', in tenths of a
\* minute, rounded to the nearest tenth.
time_period(n, rate) == (20 * n + 60 * rate) \div (120 * rate)

\* Variant of insufficient: the limit is one second of data, not one minute.
insufficient_below_one_second(d, rate) == len(d) < rate

\* Less than 1 minute of data
insufficient(d, rate) == len(d) < rate * 60

analyze_patterns(d, rate, analysis_window_minutes) ==
    IF insufficient(d, rate)
        THEN ("pattern_analysis" :> "insufficient_data")
             @@ ("trends" :> EmptyDict)
             @@ ("recommendations" :> <<"Collect more data for pattern analysis">>)
        ELSE LET analysis_samples == Min(analysis_window_minutes * 60 * rate, len(d))
                 recent_data == tail(d, analysis_samples)
                 analysis_results ==
                     ("time_period" :> time_period(len(recent_data), rate))
                     @@ ("total_samples" :> len(recent_data))
                     @@ (IF "posture_label" \in recent_data.columns
                             THEN "posture_distribution" :> posture_distribution(recent_data)
                             ELSE EmptyDict)
                     @@ ("trends" :> trends_of(recent_data))
             IN  analysis_results
                 @@ ("recommendations" :> generate_recommendations(analysis_results))

\* self.ml_model = None
NoModel == [trained_by |-> 0, fitted |-> FALSE, features |-> {}]

\* self.scaler = StandardScaler(), not fitted
NewScaler == [fitted_by |-> 0, features |-> {}]

(***************************************************************************)
(* predict_posture_ml.  A fitted scaler or model is known by the training  *)
(* that fitted it and the feature columns it was fitted on; a prediction   *)
(* by the model that made it.                                              *)
(***************************************************************************)
feature_columns ==
    {"s1_pitch", "s1_roll", "s2_pitch", "s2_roll",
     "spine_pitch_curvature", "spine_roll_curvature", "spine_curvature_magnitude",
     "s1_movement_variability", "s2_movement_variability", "spine_stability"}

\* self.scaler.transform(X): NotFittedError before fit, ValueError when X has
\* other feature columns than the scaler was fitted on.
scaler_transform(sc, features) ==
    IF sc.fitted_by = 0 THEN "NotFittedError"
    ELSE IF sc.features # features THEN "ValueError"
    ELSE "none"

\* self.ml_model.predict(X_scaled) and predict_proba(X_scaled): NotFittedError
\* before fit, ValueError when X_scaled has another number of features.
model_predict(model, features) ==
    IF ~model.fitted THEN "NotFittedError"
    ELSE IF Cardinality(model.features) # Cardinality(features) THEN "ValueError"
    ELSE "none"

\* df_ml: the scaler's training and the model's are what the two columns
\* depend on.
with_predictions(d, by_scaler, by_predict, by_predict_proba) ==
    WithColumn(
        WithColumn(d, "ml_prediction", Rep(<<"predict", by_predict, by_scaler>>, len(d))),
        "ml_confidence", Rep(<<"predict_proba", by_predict_proba, by_scaler>>, len(d)))

\* Variant of predicts: is_trained and ml_model are not looked at.
predicts_when_untrained(d, trained, model) ==
    Cardinality(feature_columns \cap d.columns) >= 5

\* Lines 430-441: whether the call goes on to the scaler and the model.
predicts(d, trained, model) ==
    /\ trained
    /\ model # NoModel
    /\ Cardinality(feature_columns \cap d.columns) >= 5

\* The whole call with no other thread running.
predict_posture_ml(d, trained, model, sc) ==
    LET available_features == feature_columns \cap d.columns
    IN  IF ~predicts(d, trained, model) THEN [raised |-> "none", value |-> d]
        ELSE IF scaler_transform(sc, available_features) # "none"
            THEN [raised |-> scaler_transform(sc, available_features), value |-> NoFrame]
        ELSE IF model_predict(model, available_features) # "none"
            THEN [raised |-> model_predict(model, available_features), value |-> NoFrame]
        ELSE [raised |-> "none",
              value |-> with_predictions(d, sc.fitted_by, model.trained_by,
                                         model.trained_by)]

(***************************************************************************)
(* train_ml_model: the checks before the scaler is touched.                *)
(***************************************************************************)
\* Variant of trainable: 99 rows are enough.
trainable_from_99_rows(training_data) ==
    /\ Cardinality(feature_columns \cap training_data.columns) >= 5
    /\ "posture_label" \in training_data.columns
    /\ training_data.len >= 99

\* training_data is known by its columns and its number of rows.
trainable(training_data) ==
    /\ Cardinality(feature_columns \cap training_data.columns) >= 5
    /\ "posture_label" \in training_data.columns
    /\ training_data.len >= 100

\* The whole call with no other thread running: what it returns and what it
\* leaves in self.ml_model, self.scaler and self.is_trained.  by is the
\* number of this training.
train_ml_model(training_data, model, sc, trained, by) ==
    LET available_features == feature_columns \cap training_data.columns
    IN  IF trainable(training_data)
            THEN [returned |-> "True",
                  scaler |-> [fitted_by |-> by, features |-> available_features],
                  ml_model |-> [trained_by |-> by, fitted |-> TRUE,
                                features |-> available_features],
                  is_trained |-> TRUE]
            ELSE [returned |-> "False", scaler |-> sc, ml_model |-> model,
                  is_trained |-> trained]

(***************************************************************************)
(* process_complete_analysis                                               *)
(***************************************************************************)
process_complete_analysis(d, rate, trained, model, sc) ==
    LET clean == preprocess_data(d, rate)
        oriented == extract_orientation(clean.value)
        features == extract_advanced_features(oriented, rate)
        classified == classify_posture_realtime(features)
        patterns == analyze_patterns(classified, rate, 5)
        final == IF trained
                     THEN predict_posture_ml(classified, trained, model, sc)
                     ELSE [raised |-> "none", value |-> classified]
    IN  IF clean.raised # "none"
            THEN [df_clean |-> NoFrame, df_oriented |-> NoFrame,
                  df_features |-> NoFrame, df_classified |-> NoFrame,
                  pattern_results |-> EmptyDict, df_final |-> NoFrame,
                  raised |-> clean.raised]
            ELSE [df_clean |-> clean.value, df_oriented |-> oriented,
                  df_features |-> features, df_classified |-> classified,
                  pattern_results |-> patterns, df_final |-> final.value,
                  raised |-> final.raised]

(***************************************************************************)
(* Inputs: raw frames given to process_complete_analysis.  Accelerations   *)
(* are in fixed point, Unit steps per m/s^2.  Every channel is constant    *)
(* over the series, except that at rates where the low-pass filter is off  *)
(* and in series of at most MaxSpikeLen rows one sample of s1_accel_x and  *)
(* of s1_gyro_x may stand out.  Series with such a sample and series       *)
(* longer than MaxSpikeLen keep sensor 2 upright and the gyroscopes at 0.  *)
(***************************************************************************)
\* z of a sensor at rest: 9.8 m/s^2
Gravity == (98 * Unit) \div 10

\* Sensor 1: upright, leaning forward by about 15 and by about 27 degrees.
Sensor1Vectors ==
    {<<0, 0, Gravity>>, <<-(26 * Unit) \div 10, 0, Gravity>>,
     <<-(49 * Unit) \div 10, 0, Gravity>>}

\* Sensor 2: upright, leaning sideways by about 11 degrees.
Sensor2Vectors == {<<0, 0, Gravity>>, <<0, (2 * Unit), Gravity>>}

GyroRates == {0, Unit \div 100}

Spikes == {0, Unit \div 2}

RawRow(i, a1, a2, g, spike, at, rate) ==
    [k \in RawColumns |->
        CASE k = "timestamp" -> ((i - 1) * 1000) \div rate
          [] k = "s1_accel_x" -> a1[1] + (IF i = at THEN spike ELSE 0)
          [] k = "s1_accel_y" -> a1[2]
          [] k = "s1_accel_z" -> a1[3]
          [] k = "s2_accel_x" -> a2[1]
          [] k = "s2_accel_y" -> a2[2]
          [] k = "s2_accel_z" -> a2[3]
          [] k = "s1_gyro_x" -> g + (IF i = at THEN spike ELSE 0)
          [] OTHER -> g]

\* Lengths around the minimums of the stages: 5 rows for the smoothing
\* filter, 2 x order + 1 = 9 rows for the low-pass filter and padlen + 1 = 16 for
\* its padding, 10 rows for the rolling features, one minute for the trends.
RawLengths(rate) ==
    {n \in {0, 1, 4, 5, 8, 9, 10, 12, 15, 16, 60 * rate - 1, 60 * rate} : n <= MaxRawLen}

RawFramesOf(lengths, rate) ==
    {Frame(RawColumns, [i \in 1..q[1] |-> RawRow(i, q[2], q[3], q[4], q[5], 3, rate)]) :
        q \in {q \in lengths \X Sensor1Vectors \X Sensor2Vectors
                        \X GyroRates \X Spikes :
                  /\ q[5] # 0 => (~lowpass_enabled(rate) /\ q[1] <= MaxSpikeLen /\ q[1] >= 3)
                  /\ (q[5] # 0 \/ q[1] > MaxSpikeLen) => (q[3] = <<0, 0, Gravity>> /\ q[4] = 0)}}

RawFrames(rate) == RawFramesOf(RawLengths(rate), rate)

\* Series below the minimum of the low-pass filter, gyroscopes at 0.
ShortRawFrames(rate) ==
    {f \in RawFramesOf({1, 5}, rate) : f.rows[1]["s1_gyro_y"] = 0}

(***************************************************************************)
(* Inputs: feature frames given to classify_posture_realtime.              *)
(* Every criterion takes the values at and just above its two thresholds.  *)
(***************************************************************************)
PitchValues ==
    {thresholds.forward_head_mild * Unit,
     thresholds.forward_head_severe * Unit,
     thresholds.forward_head_severe * Unit + 1}

PitchCurvatureValues ==
    {thresholds.hunched_shoulders_mild * Unit,
     thresholds.hunched_shoulders_severe * Unit,
     thresholds.hunched_shoulders_severe * Unit + 1}

RollCurvatureValues ==
    {thresholds.side_lean_mild * Unit,
     -(thresholds.side_lean_severe * Unit),
     thresholds.side_lean_severe * Unit + 1}

StabilityValues ==
    {thresholds.stability_threshold * Unit - 1,
     thresholds.stability_threshold * Unit,
     thresholds.movement_threshold * Unit + 1}

TiltColumns == {"s1_pitch", "spine_pitch_curvature", "spine_roll_curvature"}

FeatureRow(cols, p, c, r, s) ==
    [k \in cols |-> CASE k = "s1_pitch" -> p
                      [] k = "spine_pitch_curvature" -> c
                      [] k = "spine_roll_curvature" -> r
                      [] OTHER -> s]

FeatureRows(cols) ==
    {FeatureRow(cols, p, c, r, s) :
        p \in PitchValues, c \in PitchCurvatureValues,
        r \in RollCurvatureValues,
        s \in IF "spine_stability" \in cols THEN StabilityValues ELSE {0}}

FeatureColumnSets == {TiltColumns, TiltColumns \cup {"spine_stability"}}

\* Rows that come before the last row of a series: no issue, one mild issue,
\* every issue at its severe tier.
HistoryRows(cols) ==
    {FeatureRow(cols, thresholds.forward_head_mild * Unit,
                      thresholds.hunched_shoulders_mild * Unit,
                      thresholds.side_lean_mild * Unit,
                      thresholds.stability_threshold * Unit),
     FeatureRow(cols, thresholds.forward_head_severe * Unit,
                      thresholds.hunched_shoulders_mild * Unit,
                      thresholds.side_lean_mild * Unit,
                      thresholds.stability_threshold * Unit),
     FeatureRow(cols, thresholds.forward_head_severe * Unit + 1,
                      thresholds.hunched_shoulders_severe * Unit + 1,
                      thresholds.side_lean_severe * Unit + 1,
                      thresholds.movement_threshold * Unit + 1)}

\* The empty frame, and k equal rows followed by one more row.
FeatureFrames ==
    {Frame(cols, <<>>) : cols \in FeatureColumnSets}
    \cup UNION {{Frame(cols, Rep(h, k) \o <<r>>) :
                    h \in HistoryRows(cols), r \in FeatureRows(cols)} :
                cols \in FeatureColumnSets, k \in 0..MaxRep}

(***************************************************************************)
(* Inputs: frames given to analyze_patterns.  A frame of n rows has        *)
(* s1_pitch on a ramp with one step per sample in its first half and       *)
(* another in its second half, spine_curvature_magnitude on a ramp, a      *)
(* constant spine_stability, and labels laid out by a plan of shares in    *)
(* twentieths of the series.                                               *)
(***************************************************************************)
\* Per-sample steps around the trend threshold of 0.01 degree.
Steps == {-(Hundredth + 1), -(Hundredth \div 2), 0, Hundredth \div 2, Hundredth + 1}

StepPairs ==
    {<<a, a>> : a \in Steps}
    \cup {<<Hundredth \div 2, Hundredth + 1>>, <<Hundredth + 1, Hundredth \div 2>>,
          <<-(Hundredth + 1), -(Hundredth \div 2)>>, <<Hundredth + 1, -(Hundredth + 1)>>}

Ramp(n, steps) ==
    LET h == n \div 2
    IN  [i \in 1..n |-> IF i <= h THEN steps[1] * (i - 1)
                        ELSE steps[1] * (h - 1) + steps[2] * (i - h)]

CurvatureBase == thresholds.forward_head_severe * Unit

MeanStabilities == {0, Unit \div 2, 2 * Unit + 1, 4 * Unit + 1}

\* The mean stabilities at and next to the limits 0.5, 2 and 4.
RegimeLimits ==
    {Unit \div 2 - 1, Unit \div 2, 2 * Unit, 2 * Unit + 1, 4 * Unit, 4 * Unit + 1}

LabelPlans ==
    {<< <<"good_posture", 20>> >>,
     << <<"good_posture", 15>>, <<"static_posture", 5>> >>,
     << <<"multiple_issues", 9>>, <<"good_posture", 11>> >>,
     << <<"mild_forward_head", 7>>, <<"mild_hunched", 6>>,
        <<"severe_side_lean", 5>>, <<"good_posture", 2>> >>}

\* The label of the plan at twentieth q (0..19).
RECURSIVE PlanLabel(_, _)
PlanLabel(plan, q) ==
    IF Len(plan) = 1 \/ q < plan[1][2] THEN plan[1][1]
    ELSE PlanLabel(Tail(plan), q - plan[1][2])

AnalyzeColumns ==
    {"s1_pitch", "spine_curvature_magnitude", "spine_stability", "posture_label"}

AnalyzeColumnSets ==
    {AnalyzeColumns, AnalyzeColumns \ {"posture_label"}, {"posture_label"}}

AnalyzeFrame(cols, n, steps, cstep, stab, plan) ==
    LET pitch == Ramp(n, steps)
    IN  Frame(cols,
              [i \in 1..n |->
                  [k \in cols |->
                      CASE k = "s1_pitch" -> pitch[i]
                        [] k = "spine_curvature_magnitude" -> CurvatureBase + cstep * (i - 1)
                        [] k = "spine_stability" -> stab
                        [] OTHER -> PlanLabel(plan, ((i - 1) * 20) \div n)]])

\* Lengths around one minute of data and, when MaxLen allows, one sample more
\* than the five-minute window.
AnalyzeLengths(rate) ==
    {n \in {0, 60 * rate - 1, 60 * rate, 60 * rate + 1, 5 * 60 * rate + 1} : n <= MaxLen}

\* The trends vary under one plan and one stability; the plans and the
\* stabilities vary under one trend.
AnalyzeParams ==
    {<<steps, cstep, 0, << <<"good_posture", 20>> >> >> :
        steps \in StepPairs, cstep \in {-(Hundredth + 1), 0, Hundredth + 1}}
    \cup {<< <<Hundredth + 1, Hundredth + 1>>, Hundredth + 1, stab, plan>> :
        stab \in MeanStabilities, plan \in LabelPlans}
    \cup {<< <<step, step>>, step, 0, << <<"good_posture", 20>> >> >> :
        step \in {-Hundredth, Hundredth}}
    \cup {<< <<0, 0>>, 0, stab, << <<"good_posture", 20>> >> >> :
        stab \in RegimeLimits}

AnalyzeFrames(rate) ==
    {AnalyzeFrame(cols, n, q[1], q[2], q[3], q[4]) :
        cols \in AnalyzeColumnSets, n \in AnalyzeLengths(rate), q \in AnalyzeParams}

(***************************************************************************)
(* Inputs: reports given to generate_recommendations directly.  The        *)
(* percentages are whole numbers at and just above the limits of the       *)
(* rules, summing to at most 100.                                          *)
(***************************************************************************)
Percent(label, p) == IF p = 0 THEN EmptyDict ELSE label :> Rat(p, 1)

PercentTuples ==
    {q \in {0, 30, 31} \X {0, 25, 26} \X {0, 20, 21} \X {0, 22, 30, 51, 71} :
        q[1] + q[2] + q[3] + q[4] <= 100}

Distributions ==
    {Percent("severe_forward_head", IF q[1] > 30 THEN q[1] - 30 ELSE 0)
         @@ Percent("mild_forward_head", IF q[1] > 30 THEN 30 ELSE q[1])
         @@ Percent("mild_hunched", q[2])
         @@ Percent("severe_side_lean", q[3])
         @@ Percent("good_posture", q[4]) : q \in PercentTuples}

Choice(key, values) ==
    {EmptyDict} \cup {key :> v : v \in values}

TrendDicts ==
    {a @@ b @@ c :
        a \in Choice("forward_head_trend", {"worsening", "stable"}),
        b \in Choice("spine_curvature_trend", {"improving", "worsening", "stable"}),
        c \in Choice("movement_pattern",
                      {"too_static", "highly_dynamic", "optimal", "moderately_active"})}

AnalysisResults ==
    {("posture_distribution" :> d) @@ ("trends" :> t) :
        d \in Distributions, t \in TrendDicts}
    \cup {"posture_distribution" :> d : d \in Distributions}
    \cup {"trends" :> t : t \in TrendDicts}

SampleRates == {1, 10}

(***************************************************************************)
(* The state machine: one instance, its public methods called in any order.*)
(***************************************************************************)
\* One thread retrains the instance while two others predict with it.
Trainer == "trainer"

Predictors == {"p1", "p2"}

Threads == {Trainer} \cup Predictors

NoTraining == [data |-> [columns |-> {}, len |-> 0], returned |-> "none"]

NoInference ==
    [df |-> NoFrame, scaler |-> 0, predict |-> 0, predict_proba |-> 0,
     raised |-> "none", value |-> NoFrame]

\* training_data: all feature columns or four of them, labelled or not, 99
\* or 100 rows.
TrainingSets ==
    {[columns |-> c \cup l, len |-> n] :
        c \in {feature_columns, {"s1_pitch", "s1_roll", "s2_pitch", "s2_roll"}},
        l \in {{}, {"posture_label"}}, n \in {99, 100}}

\* df of predict_posture_ml: one row of all feature columns or of four.
PredictFrames ==
    {Frame(c, <<[k \in c |-> 0]>>) :
        c \in {feature_columns, {"s1_pitch", "s1_roll", "s2_pitch", "s2_roll"}}}

\* Five of the ten feature columns: enough to train on.
FiveFeatures ==
    {"s1_pitch", "s1_roll", "s2_pitch", "s2_roll", "spine_pitch_curvature"}

\* training_data of the calls made one at a time: TrainingSets, and corpora
\* of the five columns.
LifecycleTrainingSets ==
    TrainingSets
    \cup {[columns |-> FiveFeatures \cup {"posture_label"}, len |-> n] : n \in {99, 100}}

\* df of the predict_posture_ml calls made one at a time.
LifecyclePredictFrames ==
    PredictFrames
    \cup {Frame(FiveFeatures \cup {"timestamp"},
                <<[k \in FiveFeatures \cup {"timestamp"} |-> 0]>>)}

\* Before the first readline() and the first start_collection call.
NoLine == [utf8 |-> TRUE, fields |-> <<"">>]

NoCollection ==
    [at |-> "not_started", connected |-> FALSE, save_to_csv |-> FALSE, raised |-> "none"]

\* self.serial_connection = None
NoConnection == [object |-> FALSE, port |-> "None", is_open |-> FALSE]

\* No tool of the server has been called.
NoTool ==
    [name |-> "none", port |-> "None", compile |-> "not_run", upload |-> "not_run",
     wrote |-> FALSE, returned |-> "none"]

\* get_dataframe has not been called.
NoDataframe == [returned |-> "not_called", columns |-> <<>>, rows |-> <<>>]

\* PostureAlgorithms.__init__(sample_rate): line 38 divides by sample_rate.
PostureAlgorithms(rate) ==
    IF rate = 0 THEN [raised |-> "ZeroDivisionError"] ELSE [raised |-> "none"]

\* The attributes __init__ sets besides sample_rate, no call made yet, and
\* the rest of the program untouched.
Fresh ==
    /\ ml_model = NoModel
    /\ scaler = NewScaler
    /\ is_trained = FALSE
    /\ df = NoFrame
    /\ df_clean = NoFrame
    /\ df_oriented = NoFrame
    /\ df_features = NoFrame
    /\ df_final = NoFrame
    /\ df_classified = NoFrame
    /\ alert = NoAlert
    /\ pattern_results = EmptyDict
    /\ report = EmptyDict
    /\ advice = <<>>
    /\ raised = "none"
    /\ pc = [t \in Threads |-> "idle"]
    /\ training = NoTraining
    /\ inference = [p \in Predictors |-> NoInference]
    /\ trainings = 0
    /\ channel = <<>>
    /\ passes = 0
    /\ is_collecting = FALSE
    /\ data_buffer = <<>>
    /\ csvfile = <<>>
    /\ line = NoLine
    /\ collection = NoCollection
    /\ reads = 0
    /\ serial_connection = "None"
    /\ dataframe = NoDataframe
    /\ arduino_port = "None"
    /\ arduino_serial_connection = NoConnection
    /\ tool = NoTool

Init ==
    /\ sample_rate \in SampleRates
    /\ op = "idle"
    /\ Fresh

ClassifyPostureRealtime ==
    /\ op = "idle"
    /\ \E d \in FeatureFrames :
        /\ op' = "classify_posture_realtime"
        /\ df' = d
        /\ df_classified' = classify_posture_realtime(d)
    /\ UNCHANGED <<instance, stages, alert, pattern_results, report, advice, raised, threads, aside, collector, arduino>>

\* generate_realtime_alert(current_data) on the frame last classified.
GenerateRealtimeAlert ==
    /\ op = "classify_posture_realtime"
    /\ LET res == generate_realtime_alert(df_classified)
       IN  /\ alert' = res.value
           /\ raised' = res.raised
    /\ op' = "generate_realtime_alert"
    /\ UNCHANGED <<instance, stages, df, df_classified, pattern_results, report, advice, threads, aside, collector, arduino>>

\* analyze_patterns(df) with the default window of 5 minutes.
AnalyzePatterns ==
    /\ op = "idle"
    /\ \E d \in AnalyzeFrames(sample_rate) :
        /\ op' = "analyze_patterns"
        /\ df' = d
        /\ pattern_results' = analyze_patterns(d, sample_rate, 5)
    /\ UNCHANGED <<instance, stages, df_classified, alert, report, advice, raised, threads, aside, collector, arduino>>

\* generate_recommendations(analysis_results) called with a report of the
\* caller's own.
GenerateRecommendations ==
    /\ op = "idle"
    /\ \E a \in AnalysisResults :
        /\ op' = "generate_recommendations"
        /\ report' = a
        /\ advice' = generate_recommendations(a)
    /\ UNCHANGED <<instance, stages, df, df_classified, alert, pattern_results, raised, threads, aside, collector, arduino>>

\* process_complete_analysis(df): the stages in order; an exception in a
\* stage leaves the method and the later stages do not run.
Process(d) ==
    LET run == process_complete_analysis(d, sample_rate, is_trained, ml_model, scaler)
    IN  /\ op' = "process_complete_analysis"
        /\ df' = d
        /\ df_clean' = run.df_clean
        /\ df_oriented' = run.df_oriented
        /\ df_features' = run.df_features
        /\ df_classified' = run.df_classified
        /\ pattern_results' = run.pattern_results
        /\ df_final' = run.df_final
        /\ raised' = run.raised
        /\ UNCHANGED <<instance, alert, report, advice, threads, aside, collector, arduino>>

ProcessCompleteAnalysis ==
    /\ op = "idle"
    /\ \E d \in RawFrames(sample_rate) : Process(d)

\* The caller drops the results; the instance is ready for the next call.
Return ==
    /\ op \notin {"idle", "unconstructed"}
    /\ op' = "idle"
    /\ df' = NoFrame
    /\ df_clean' = NoFrame
    /\ df_oriented' = NoFrame
    /\ df_features' = NoFrame
    /\ df_final' = NoFrame
    /\ df_classified' = NoFrame
    /\ alert' = NoAlert
    /\ pattern_results' = EmptyDict
    /\ report' = EmptyDict
    /\ advice' = <<>>
    /\ raised' = "none"
    /\ UNCHANGED <<instance, threads, aside, collector, arduino>>

Next ==
    \/ ClassifyPostureRealtime
    \/ GenerateRealtimeAlert
    \/ AnalyzePatterns
    \/ GenerateRecommendations
    \/ ProcessCompleteAnalysis
    \/ Return

Spec == Init /\ [][Next]_vars

(***************************************************************************)
(* The constructor called with any sample_rate, and the classifier on the  *)
(* instance it gives.                                                      *)
(***************************************************************************)
ConstructorRates == {-10, -1, 0, 1, 10}

\* No instance yet: no PostureAlgorithms(...) call has returned.
InitConstruct ==
    /\ sample_rate = 0
    /\ op = "unconstructed"
    /\ Fresh

\* PostureAlgorithms(sample_rate=rate): self.sample_rate is assigned at line
\* 36; when line 38 raises, the caller gets no instance.
Construct ==
    /\ op = "unconstructed"
    /\ \E rate \in ConstructorRates :
        /\ sample_rate' = rate
        /\ raised' = PostureAlgorithms(rate).raised
        /\ op' = IF PostureAlgorithms(rate).raised = "none" THEN "idle" ELSE "unconstructed"
    /\ UNCHANGED <<ml_model, scaler, is_trained, df, stages, df_classified, alert,
                   pattern_results, report, advice, threads, aside, collector, arduino>>

NextConstruct ==
    \/ Construct
    \/ ClassifyPostureRealtime
    \/ GenerateRealtimeAlert
    \/ Return

SpecConstruct == InitConstruct /\ [][NextConstruct]_vars

(***************************************************************************)
(* The classifier and the alert on their own: the calls of Spec that read  *)
(* feature frames.                                                         *)
(***************************************************************************)
NextClassify ==
    \/ ClassifyPostureRealtime
    \/ GenerateRealtimeAlert
    \/ Return

SpecClassify == Init /\ [][NextClassify]_vars

(***************************************************************************)
(* The life of the model: train_ml_model, predict_posture_ml and           *)
(* process_complete_analysis called one at a time on one instance.         *)
(***************************************************************************)
\* train_ml_model(training_data)
TrainMlModel ==
    /\ op = "idle"
    /\ \E data \in LifecycleTrainingSets :
        LET run == train_ml_model(data, ml_model, scaler, is_trained, trainings + 1)
        IN  /\ run.returned = "True" => trainings < MaxTrainings
            /\ op' = "train_ml_model"
            /\ training' = [data |-> data, returned |-> run.returned]
            /\ ml_model' = run.ml_model
            /\ scaler' = run.scaler
            /\ is_trained' = run.is_trained
            /\ trainings' = IF run.returned = "True" THEN trainings + 1 ELSE trainings
    /\ UNCHANGED <<sample_rate, results_of_calls, pc, inference, aside, collector, arduino>>

\* predict_posture_ml(df); df_final holds what it returned.
PredictPostureMl ==
    /\ op = "idle"
    /\ \E d \in LifecyclePredictFrames :
        LET run == predict_posture_ml(d, is_trained, ml_model, scaler)
        IN  /\ op' = "predict_posture_ml"
            /\ df' = d
            /\ df_final' = run.value
            /\ raised' = run.raised
    /\ UNCHANGED <<instance, df_clean, df_oriented, df_features, df_classified,
                   alert, pattern_results, report, advice, threads, aside, collector, arduino>>

\* process_complete_analysis(df) on a series of at most 5 rows.
ProcessShortSeries ==
    /\ op = "idle"
    /\ \E d \in ShortRawFrames(sample_rate) : Process(d)

NextLifecycle ==
    \/ TrainMlModel
    \/ PredictPostureMl
    \/ ProcessShortSeries
    \/ Return

\* PostureAlgorithms() with the default sample_rate.
InitLifecycle ==
    /\ Init
    /\ sample_rate = 10

SpecLifecycle == InitLifecycle /\ [][NextLifecycle]_vars

(***************************************************************************)
(* train_ml_model and predict_posture_ml called from threads of their own. *)
(* A step is one statement that reads or writes self.scaler, self.ml_model *)
(* or self.is_trained; the call into the library it makes is taken whole.  *)
(***************************************************************************)
\* Lines 381-402: the checks; False is returned before anything is written.
TrainCall ==
    /\ pc[Trainer] = "idle"
    /\ trainings < MaxTrainings
    /\ \E data \in TrainingSets :
        IF trainable(data)
            THEN /\ training' = [data |-> data, returned |-> "none"]
                 /\ pc' = [pc EXCEPT ![Trainer] = "scale"]
                 /\ trainings' = trainings + 1
            ELSE /\ training' = [data |-> data, returned |-> "False"]
                 /\ UNCHANGED <<pc, trainings, aside, collector, arduino>>
    /\ UNCHANGED <<instance, results, inference, aside, collector, arduino>>

\* Line 408: self.scaler.fit_transform(X_train) fits the scaler in place.
TrainScale ==
    /\ pc[Trainer] = "scale"
    /\ scaler' = [fitted_by |-> trainings,
                  features |-> feature_columns \cap training.data.columns]
    /\ pc' = [pc EXCEPT ![Trainer] = "new_model"]
    /\ UNCHANGED <<sample_rate, ml_model, is_trained, results, training,
                   inference, trainings, aside, collector, arduino>>

\* Line 412: self.ml_model = RandomForestClassifier(...), not fitted.
TrainNewModel ==
    /\ pc[Trainer] = "new_model"
    /\ ml_model' = [trained_by |-> trainings, fitted |-> FALSE, features |-> {}]
    /\ pc' = [pc EXCEPT ![Trainer] = "fit"]
    /\ UNCHANGED <<sample_rate, scaler, is_trained, results, training,
                   inference, trainings, aside, collector, arduino>>

\* Line 413: self.ml_model.fit(X_train_scaled, y_train).
TrainFit ==
    /\ pc[Trainer] = "fit"
    /\ ml_model' = [ml_model EXCEPT !.fitted = TRUE, !.features = scaler.features]
    /\ pc' = [pc EXCEPT ![Trainer] = "publish"]
    /\ UNCHANGED <<sample_rate, scaler, is_trained, results, training,
                   inference, trainings, aside, collector, arduino>>

\* Lines 423-424: self.is_trained = True; return True.
TrainPublish ==
    /\ pc[Trainer] = "publish"
    /\ is_trained' = TRUE
    /\ training' = [training EXCEPT !.returned = "True"]
    /\ pc' = [pc EXCEPT ![Trainer] = "idle"]
    /\ UNCHANGED <<sample_rate, ml_model, scaler, results, inference, trainings, aside, collector, arduino>>

\* Lines 430-441: df is returned as it is when the instance is not trained
\* or df has fewer than 5 feature columns.
PredictCall(p) ==
    /\ pc[p] = "idle"
    /\ \E d \in PredictFrames :
        IF predicts(d, is_trained, ml_model)
            THEN /\ inference' = [inference EXCEPT ![p] = [NoInference EXCEPT !.df = d]]
                 /\ pc' = [pc EXCEPT ![p] = "transform"]
            ELSE /\ inference' = [inference EXCEPT
                                     ![p] = [NoInference EXCEPT !.df = d, !.value = d]]
                 /\ pc' = [pc EXCEPT ![p] = "done"]
    /\ UNCHANGED <<instance, results, training, trainings, aside, collector, arduino>>

\* Line 443: X_scaled = self.scaler.transform(X).
PredictTransform(p) ==
    /\ pc[p] = "transform"
    /\ LET e == scaler_transform(scaler, feature_columns \cap inference[p].df.columns)
       IN  IF e = "none"
               THEN /\ inference' = [inference EXCEPT ![p].scaler = scaler.fitted_by]
                    /\ pc' = [pc EXCEPT ![p] = "predict"]
               ELSE /\ inference' = [inference EXCEPT ![p].raised = e]
                    /\ pc' = [pc EXCEPT ![p] = "done"]
    /\ UNCHANGED <<instance, results, training, trainings, aside, collector, arduino>>

\* Line 446: self.ml_model.predict(X_scaled).
PredictPredict(p) ==
    /\ pc[p] = "predict"
    /\ LET e == model_predict(ml_model, feature_columns \cap inference[p].df.columns)
       IN  IF e = "none"
               THEN /\ inference' = [inference EXCEPT ![p].predict = ml_model.trained_by]
                    /\ pc' = [pc EXCEPT ![p] = "predict_proba"]
               ELSE /\ inference' = [inference EXCEPT ![p].raised = e]
                    /\ pc' = [pc EXCEPT ![p] = "done"]
    /\ UNCHANGED <<instance, results, training, trainings, aside, collector, arduino>>

\* Lines 447-449: self.ml_model.predict_proba(X_scaled); return df_ml.
PredictProba(p) ==
    /\ pc[p] = "predict_proba"
    /\ LET e == model_predict(ml_model, feature_columns \cap inference[p].df.columns)
           r == inference[p]
       IN  IF e = "none"
               THEN inference' = [inference EXCEPT
                        ![p].predict_proba = ml_model.trained_by,
                        ![p].value = with_predictions(r.df, r.scaler, r.predict,
                                                      ml_model.trained_by)]
               ELSE inference' = [inference EXCEPT ![p].raised = e]
    /\ pc' = [pc EXCEPT ![p] = "done"]
    /\ UNCHANGED <<instance, results, training, trainings, aside, collector, arduino>>

\* The caller has the frame or the exception; the thread may call again.
PredictReturn(p) ==
    /\ pc[p] = "done"
    /\ inference' = [inference EXCEPT ![p] = NoInference]
    /\ pc' = [pc EXCEPT ![p] = "idle"]
    /\ UNCHANGED <<instance, results, training, trainings, aside, collector, arduino>>

NextML ==
    \/ TrainCall
    \/ TrainScale
    \/ TrainNewModel
    \/ TrainFit
    \/ TrainPublish
    \/ \E p \in Predictors : PredictCall(p)
    \/ \E p \in Predictors : PredictTransform(p)
    \/ \E p \in Predictors : PredictPredict(p)
    \/ \E p \in Predictors : PredictProba(p)
    \/ \E p \in Predictors : PredictReturn(p)

SpecML == Init /\ [][NextML]_vars

(***************************************************************************)
(* The outlier step of preprocess_data applied to one channel, and again   *)
(* to what it returned.                                                    *)
(***************************************************************************)
\* Channels of 1 to 16 samples at rest (0) or under gravity, all equal but
\* for one or two samples that stand out by half a unit or by a fifth of it.
OutlierLengths == {1, 2, 10, 11, 12, 16}

OutlierChannels ==
    {[i \in 1..n |-> base + (IF i = at THEN a ELSE 0)
                          + (IF i = n THEN b ELSE 0)] :
        n \in OutlierLengths, base \in {0, Gravity}, at \in {1, 2},
        a \in {0, Unit \div 2, -(Unit \div 2)}, b \in {0, Unit \div 5}}

InitOutliers ==
    /\ Init
    /\ sample_rate = 10

\* The caller hands a channel to the step.
TakeChannel ==
    /\ channel = <<>>
    /\ \E x \in OutlierChannels : channel' = x
    /\ passes' = 0
    /\ UNCHANGED <<instance, results, threads, collector, arduino>>

\* Lines 76-79 on the channel.
RemoveOutliers ==
    /\ channel # <<>>
    /\ passes < MaxPasses
    /\ channel' = remove_outliers(channel)
    /\ passes' = passes + 1
    /\ UNCHANGED <<instance, results, threads, collector, arduino>>

NextOutliers ==
    \/ TakeChannel
    \/ RemoveOutliers

SpecOutliers == InitOutliers /\ [][NextOutliers]_vars

(***************************************************************************)
(* DualMPU6050Analyzer.start_collection.  A line of the serial port is the *)
(* list of its comma-separated fields and whether its bytes are UTF-8.     *)
(***************************************************************************)
\* self.columns
columns ==
    <<"timestamp", "s1_accel_x", "s1_accel_y", "s1_accel_z",
      "s1_gyro_x", "s1_gyro_y", "s1_gyro_z", "s1_temp",
      "s2_accel_x", "s2_accel_y", "s2_accel_z",
      "s2_gyro_x", "s2_gyro_y", "s2_gyro_z", "s2_temp">>

\* Texts that start with one of the prefixes of line 92.
Banners ==
    {"Smart Posture Tracker", "=====", "MPU6050 #1 OK", "CSV Format:",
     "Sensor 2 ready", "Calibrating..."}

\* line.startswith(('Smart', '=', 'MPU', 'CSV', 'Sensor', 'Calibrating'))
startswith_banner(fields) == fields[1] \in Banners

\* str.strip() of a line given by its fields: whitespace goes from the start
\* of the first field and the end of the last.
strip(fields) ==
    [i \in 1..Len(fields) |->
        IF (i = 1 \/ i = Len(fields)) /\ fields[i] = " " THEN "" ELSE fields[i]]

\* A line is empty when it is the one field "".
empty(fields) == fields = <<"">>

\* float(x): the value in thousandths, or not a number; ValueError for text
\* that is no float literal.
float(x) ==
    CASE x = "0" -> [raised |-> "none", value |-> [nan |-> FALSE, milli |-> 0]]
      [] x = "1.5" -> [raised |-> "none", value |-> [nan |-> FALSE, milli |-> 1500]]
      [] x = "-9.81" -> [raised |-> "none", value |-> [nan |-> FALSE, milli |-> -9810]]
      [] x = "nan" -> [raised |-> "none", value |-> [nan |-> TRUE, milli |-> 0]]
      [] OTHER -> [raised |-> "ValueError", value |-> [nan |-> TRUE, milli |-> 0]]

\* data = [float(x) for x in line.split(',')], or the ValueError of a field.
parse(fields) ==
    IF \E i \in 1..Len(fields) : float(fields[i]).raised # "none"
        THEN [raised |-> "ValueError", data |-> <<>>]
        ELSE [raised |-> "none", data |-> [i \in 1..Len(fields) |-> float(fields[i]).value]]

\* Variant of deque_append: a full buffer keeps its records and drops the
\* new one.
deque_append_keeping_oldest(buffer, data) ==
    IF Len(buffer) < BufferSize THEN Append(buffer, data) ELSE buffer

\* deque(maxlen=buffer_size).append(data)
deque_append(buffer, data) ==
    IF Len(buffer) < BufferSize THEN Append(buffer, data)
    ELSE IF BufferSize = 0 THEN buffer
    ELSE Append(Tail(buffer), data)

\* Lines 92-95: the line reaches self.data_buffer.append.
accepted(fields) ==
    /\ ~empty(fields)
    /\ ~startswith_banner(fields)
    /\ parse(fields).raised = "none"
    /\ Len(parse(fields).data) = 15

\* n fields "0", field at replaced by x.
Fields(n, at, x) == [i \in 1..n |-> IF i = at THEN x ELSE "0"]

\* Records of 15 numbers, records with a field that is no number, with an
\* empty field, records of 14, 16 and 1 fields, the empty line, a blank line,
\* the banners of the firmware, and a line whose bytes are not UTF-8.
SerialLines ==
    {[utf8 |-> TRUE, fields |-> f] :
        f \in {Fields(15, 1, "0"), Fields(15, 15, "1.5"), Fields(15, 2, "nan"),
               Fields(15, 15, "abc"), Fields(15, 1, ""), Fields(14, 1, "-9.81"),
               Fields(16, 1, "0"), Fields(1, 1, "0"), <<"">>, <<" ">>}
              \cup {<<b>> : b \in Banners}
              \cup {<<"CSV Format:", "ax", "ay">>}}
    \cup {[utf8 |-> FALSE, fields |-> Fields(15, 1, "0")]}

\* Variant of finally_clause: the port is left as it is.
finally_without_close(connection) ==
    [is_collecting |-> FALSE, serial_connection |-> connection]

\* finally: self.is_collecting = False; the port is closed when it is open.
finally_clause(connection) ==
    [is_collecting |-> FALSE,
     serial_connection |-> IF connection = "open" THEN "closed" ELSE connection]

\* pd.to_datetime(timestamp, unit='ms'): nanoseconds since the epoch, NaT for
\* a timestamp that is not a number.
to_datetime(timestamp) ==
    IF timestamp.nan THEN [nat |-> TRUE, ns |-> 0]
    ELSE [nat |-> FALSE, ns |-> timestamp.milli * 1000]

\* get_dataframe(): None for an empty buffer, else the records under
\* self.columns with the datetime column added.
get_dataframe(buffer) ==
    IF Len(buffer) = 0 THEN [returned |-> "None", columns |-> <<>>, rows |-> <<>>]
    ELSE [returned |-> "DataFrame",
          columns |-> columns \o <<"datetime">>,
          rows |-> [i \in 1..Len(buffer) |-> buffer[i] \o <<to_datetime(buffer[i][1])>>]]

\* What happens between the call and the loop: connect_serial returns False;
\* Ctrl+C arrives after self.is_collecting = True and before the try
\* statement; the CSV file cannot be opened; or the loop is entered.
StartOutcomes == {"connect_failed", "interrupted_before_try", "open_failed", "loop"}

\* start_collection(duration_seconds, save_to_csv) up to the loop.
StartCollection ==
    /\ collection.at # "loop"
    /\ \E outcome \in StartOutcomes, save_to_csv \in BOOLEAN :
        /\ outcome = "open_failed" => save_to_csv
        /\ CASE outcome = "connect_failed" ->
                  /\ collection' = [at |-> "returned", connected |-> FALSE,
                                    save_to_csv |-> save_to_csv, raised |-> "none"]
                  /\ UNCHANGED <<is_collecting, serial_connection, csvfile>>
             [] outcome = "interrupted_before_try" ->
                  /\ serial_connection' = "open"
                  /\ is_collecting' = TRUE
                  /\ collection' = [at |-> "propagated", connected |-> TRUE,
                                    save_to_csv |-> save_to_csv,
                                    raised |-> "KeyboardInterrupt"]
                  /\ UNCHANGED csvfile
             [] outcome = "open_failed" ->
                  /\ serial_connection' = finally_clause("open").serial_connection
                  /\ is_collecting' = finally_clause("open").is_collecting
                  /\ collection' = [at |-> "returned", connected |-> TRUE,
                                    save_to_csv |-> save_to_csv, raised |-> "OSError"]
                  /\ UNCHANGED csvfile
             [] outcome = "loop" ->
                  /\ serial_connection' = "open"
                  /\ is_collecting' = TRUE
                  /\ csvfile' = IF save_to_csv THEN <<columns>> ELSE <<>>
                  /\ collection' = [at |-> "loop", connected |-> TRUE,
                                    save_to_csv |-> save_to_csv, raised |-> "none"]
    /\ UNCHANGED <<instance, results, threads, aside, data_buffer, line, reads, dataframe, arduino>>

\* One pass of the loop of lines 86-106.  decode raises UnicodeDecodeError
\* outside the inner try: the handler of line 110 takes it and the finally
\* clause ends the collection.
ReadLine ==
    /\ collection.at = "loop"
    /\ reads < MaxLines
    /\ \E l \in SerialLines :
        /\ line' = l
        /\ reads' = reads + 1
        /\ IF ~l.utf8
               THEN /\ is_collecting' = finally_clause(serial_connection).is_collecting
                    /\ serial_connection' = finally_clause(serial_connection).serial_connection
                    /\ collection' = [collection EXCEPT !.at = "returned",
                                                        !.raised = "UnicodeDecodeError"]
                    /\ UNCHANGED <<data_buffer, csvfile>>
               ELSE /\ IF accepted(strip(l.fields))
                           THEN /\ data_buffer' =
                                      deque_append(data_buffer, parse(strip(l.fields)).data)
                                /\ csvfile' = IF collection.save_to_csv
                                                 THEN Append(csvfile, parse(strip(l.fields)).data)
                                                 ELSE csvfile
                           ELSE UNCHANGED <<data_buffer, csvfile>>
                    /\ UNCHANGED <<is_collecting, collection, serial_connection>>
    /\ UNCHANGED <<instance, results, threads, aside, dataframe, arduino>>

\* readline() raises serial.SerialException (the device is gone): the handler
\* of line 110 and the finally clause.
ReadFails ==
    /\ collection.at = "loop"
    /\ is_collecting' = finally_clause(serial_connection).is_collecting
    /\ serial_connection' = finally_clause(serial_connection).serial_connection
    /\ collection' = [collection EXCEPT !.at = "returned", !.raised = "SerialException"]
    /\ UNCHANGED <<instance, results, threads, aside, data_buffer, csvfile, line, reads,
                   dataframe, arduino>>

\* duration_seconds is over (line 88) or Ctrl+C inside the try statement
\* (line 108): the finally clause of line 112.
StopCollection ==
    /\ collection.at = "loop"
    /\ \E by \in {"none", "KeyboardInterrupt"} :
        collection' = [collection EXCEPT !.at = "returned", !.raised = by]
    /\ is_collecting' = finally_clause(serial_connection).is_collecting
    /\ serial_connection' = finally_clause(serial_connection).serial_connection
    /\ UNCHANGED <<instance, results, threads, aside, data_buffer, csvfile, line, reads,
                   dataframe, arduino>>

\* get_dataframe() between collections.
GetDataframe ==
    /\ collection.at # "loop"
    /\ dataframe' = get_dataframe(data_buffer)
    /\ UNCHANGED <<instance, results, threads, aside, is_collecting, data_buffer, csvfile,
                   line, collection, reads, serial_connection, arduino>>

NextCollector ==
    \/ StartCollection
    \/ ReadLine
    \/ ReadFails
    \/ StopCollection
    \/ GetDataframe

SpecCollector == Init /\ [][NextCollector]_vars

(***************************************************************************)
(* ArduinoMCPServer: the tools connect_arduino, send_command and           *)
(* compile_upload, handled one request at a time.  A connection is known   *)
(* by its port and whether it is open; an exit code by its text.           *)
(***************************************************************************)
Ports == {"COM3", "COM9", "/dev/ttyUSB0"}

\* args.get('port'): a port name, or None when the request has none.
PortArguments == Ports \cup {"None"}

\* connect_arduino(port): the connection at hand is closed first (lines
\* 36-37); serial.Serial(port, ...) opens the port or raises, and with port
\* None gives an object that is not open; a raise leaves self.serial_connection
\* and self.arduino_port as they are after the close.
connect_arduino(port, opens, connection, current_port) ==
    LET closed == IF connection.object
                      THEN [connection EXCEPT !.is_open = FALSE]
                      ELSE connection
    IN  IF port = "None"
            THEN [returned |-> "True", arduino_port |-> "None",
                  serial_connection |-> [object |-> TRUE, port |-> "None", is_open |-> FALSE]]
        ELSE IF opens
            THEN [returned |-> "True", arduino_port |-> port,
                  serial_connection |-> [object |-> TRUE, port |-> port, is_open |-> TRUE]]
        ELSE [returned |-> "False", arduino_port |-> current_port,
              serial_connection |-> closed]

\* send_command(command): io is what the port does with an open connection.
send_command(connection, io) ==
    IF ~connection.object
        THEN [wrote |-> FALSE, returned |-> "Error: Not connected to Arduino"]
    ELSE IF ~connection.is_open
        THEN [wrote |-> FALSE, returned |-> "Error: exception"]
    ELSE IF io = "raises"
        THEN [wrote |-> FALSE, returned |-> "Error: exception"]
    ELSE IF io = "silent"
        THEN [wrote |-> TRUE, returned |-> "No response"]
    ELSE [wrote |-> TRUE, returned |-> "response"]

\* What subprocess.run of a command gives: exit code 0, another exit code,
\* or an exception (arduino-cli is not installed).
Runs == {"0", "1", "raised"}

\* compile_and_upload(sketch_path, board): port is self.arduino_port, compile
\* and upload what the two commands give when they are run.
compile_and_upload(port, compile, upload) ==
    IF compile = "raised"
        THEN [port |-> "None", compile |-> compile, upload |-> "not_run",
              returned |-> "Error: exception"]
    ELSE IF compile # "0"
        THEN [port |-> "None", compile |-> compile, upload |-> "not_run",
              returned |-> "Compile failed"]
    ELSE IF port = "None"
        THEN [port |-> "None", compile |-> compile, upload |-> "not_run",
              returned |-> "Error: No Arduino port connected"]
    ELSE IF upload = "raised"
        THEN [port |-> port, compile |-> compile, upload |-> upload,
              returned |-> "Error: exception"]
    ELSE IF upload # "0"
        THEN [port |-> port, compile |-> compile, upload |-> upload,
              returned |-> "Upload failed"]
    ELSE [port |-> port, compile |-> compile, upload |-> upload,
          returned |-> "Success: Sketch compiled and uploaded"]

\* tools/call connect_arduino
ConnectArduino ==
    /\ \E port \in PortArguments, opens \in BOOLEAN :
        LET call == connect_arduino(port, opens, arduino_serial_connection, arduino_port)
        IN  /\ arduino_port' = call.arduino_port
            /\ arduino_serial_connection' = call.serial_connection
            /\ tool' = [NoTool EXCEPT !.name = "connect_arduino", !.port = port,
                                      !.returned = call.returned]
    /\ UNCHANGED <<instance, results, threads, aside, collector>>

\* tools/call send_command
SendCommand ==
    /\ \E io \in {"answers", "silent", "raises"} :
        LET call == send_command(arduino_serial_connection, io)
        IN  tool' = [NoTool EXCEPT !.name = "send_command",
                                   !.port = IF call.wrote
                                                THEN arduino_serial_connection.port
                                                ELSE "None",
                                   !.wrote = call.wrote, !.returned = call.returned]
    /\ UNCHANGED <<instance, results, threads, aside, collector, arduino_port,
                   arduino_serial_connection>>

\* tools/call compile_upload
CompileAndUpload ==
    /\ \E compile \in Runs, upload \in Runs :
        LET call == compile_and_upload(arduino_port, compile, upload)
        IN  tool' = [NoTool EXCEPT !.name = "compile_and_upload", !.port = call.port,
                                   !.compile = call.compile, !.upload = call.upload,
                                   !.returned = call.returned]
    /\ UNCHANGED <<instance, results, threads, aside, collector, arduino_port,
                   arduino_serial_connection>>

NextArduino ==
    \/ ConnectArduino
    \/ SendCommand
    \/ CompileAndUpload

SpecArduino == Init /\ [][NextArduino]_vars

(***************************************************************************)
(* Properties.                                                             *)
(***************************************************************************)
\* A state that holds the result of classify_posture_realtime(df).
Classified == op \in {"classify_posture_realtime", "generate_realtime_alert"}

IssueNames ==
    {"severe_forward_head", "mild_forward_head", "severe_hunched", "mild_hunched",
     "severe_side_lean", "mild_side_lean", "excessive_movement", "static_posture"}

\* C1: every classified row has its label and confidence from the number of
\* triggered issues: none gives good_posture with 0.9, exactly one gives that
\* issue's name with 0.8, two or more give multiple_issues with 0.7; no row
\* keeps the initial 'unknown' or confidence 0.
C1_LabelAndConfidenceFromIssueCount ==
    Classified =>
        \A i \in 1..len(df_classified) :
            LET issues == posture_issues(df.columns, df.rows[i])
                row == df_classified.rows[i]
            IN  /\ Len(issues) = 0 =>
                      row["posture_label"] = "good_posture" /\ row["confidence"] = 9
                /\ Len(issues) = 1 =>
                      /\ row["posture_label"] = issues[1]
                      /\ row["posture_label"] \in IssueNames
                      /\ row["confidence"] = 8
                /\ Len(issues) >= 2 =>
                      row["posture_label"] = "multiple_issues" /\ row["confidence"] = 7
                /\ row["posture_label"] # "unknown"
                /\ row["confidence"] # 0

\* C1 witness: a classified series with a single-issue row and a row with
\* several issues.
C1_Witness ==
    /\ op = "classify_posture_realtime"
    /\ \E i, j \in 1..len(df_classified) :
          /\ Len(posture_issues(df.columns, df.rows[i])) = 1
          /\ df_classified.rows[i]["posture_label"] = "mild_forward_head"
          /\ Len(posture_issues(df.columns, df.rows[j])) = 4
          /\ df_classified.rows[j]["posture_label"] = "multiple_issues"

\* The severity deltas as the specification lists them.
C2_Delta(cols, r) ==
    (IF r["s1_pitch"] > 20 * Unit THEN 3 ELSE IF r["s1_pitch"] > 10 * Unit THEN 1 ELSE 0)
    + (IF r["spine_pitch_curvature"] > 25 * Unit THEN 3
       ELSE IF r["spine_pitch_curvature"] > 15 * Unit THEN 1 ELSE 0)
    + (IF Abs(r["spine_roll_curvature"]) > 15 * Unit THEN 2
       ELSE IF Abs(r["spine_roll_curvature"]) > 8 * Unit THEN 1 ELSE 0)

\* C2: severity_score of every row is min(10, sum of the deltas), one tier per
\* criterion (severe forward head and hunched 3, severe side lean 2, every
\* mild tier 1, movement 0), an integer in 0..10.
C2_SeverityIsCappedSumOfDeltas ==
    Classified =>
        \A i \in 1..len(df_classified) :
            /\ df_classified.rows[i]["severity_score"]
                   = Min(10, C2_Delta(df.columns, df.rows[i]))
            /\ df_classified.rows[i]["severity_score"] \in 0..10

\* C2 witness: a row with all three tilt criteria severe scores 8, after a row
\* with one mild criterion that scores 1.
C2_Witness ==
    /\ op = "classify_posture_realtime"
    /\ len(df_classified) = 2
    /\ df_classified.rows[1]["severity_score"] = 1
    /\ df_classified.rows[2]["severity_score"] = 8

\* C3: the alert is decided by the last classified row alone: high with type
\* vibration when its severity is at least 3, medium with type notification
\* when it is 1 or 2, no alert when it is 0; an alert has a message, an action
\* and a type.
C3_AlertFromLatestSeverity ==
    (op = "generate_realtime_alert" /\ len(df_classified) > 0) =>
        LET latest == df_classified.rows[len(df_classified)]
        IN  /\ raised = "none"
            /\ latest["severity_score"] >= 3 =>
                  /\ alert # NoAlert
                  /\ DOMAIN alert = {"level", "message", "action", "type"}
                  /\ alert.level = "high" /\ alert.type = "vibration"
                  /\ alert.message = <<"Posture Alert", latest["posture_label"]>>
            /\ latest["severity_score"] \in {1, 2} =>
                  /\ alert # NoAlert
                  /\ DOMAIN alert = {"level", "message", "action", "type"}
                  /\ alert.level = "medium" /\ alert.type = "notification"
                  /\ alert.message = <<"Posture Notice", latest["posture_label"]>>
            /\ latest["severity_score"] = 0 => alert = NoAlert

\* C3 witness: a high alert for a last row of severity 3 that follows a row of
\* severity 0.
C3_Witness ==
    /\ op = "generate_realtime_alert"
    /\ len(df_classified) = 2
    /\ df_classified.rows[1]["severity_score"] = 0
    /\ df_classified.rows[2]["severity_score"] = 3
    /\ alert # NoAlert
    /\ alert.level = "high"

\* C4: analyze_patterns on fewer than 60 x sample_rate rows returns
\* pattern_analysis = 'insufficient_data' with empty trends, exactly one
\* recommendation and no distribution; on at least 60 x sample_rate rows it
\* never returns that result.
C4_InsufficientDataBelowOneMinute ==
    op = "analyze_patterns" =>
        IF len(df) < 60 * sample_rate
            THEN /\ DOMAIN pattern_results = {"pattern_analysis", "trends", "recommendations"}
                 /\ pattern_results["pattern_analysis"] = "insufficient_data"
                 /\ DOMAIN pattern_results["trends"] = {}
                 /\ Len(pattern_results["recommendations"]) = 1
            ELSE /\ "pattern_analysis" \in DOMAIN pattern_results =>
                        pattern_results["pattern_analysis"] # "insufficient_data"
                 /\ "total_samples" \in DOMAIN pattern_results

\* C4 witness: one row less than a minute of data, reported insufficient.
C4_Witness ==
    /\ op = "analyze_patterns"
    /\ len(df) = 60 * sample_rate - 1
    /\ "pattern_analysis" \in DOMAIN pattern_results
    /\ pattern_results["pattern_analysis"] = "insufficient_data"

\* C5: every recommendations list returned by analyze_patterns and by
\* generate_recommendations has at most 6 entries.
C5_AtMostSixRecommendations ==
    /\ op = "analyze_patterns" => Len(pattern_results["recommendations"]) <= 6
    /\ op = "generate_recommendations" => Len(advice) <= 6

\* C5 witness: every rule fires (11 entries generated) and 6 are returned.
C5_Witness ==
    /\ op = "generate_recommendations"
    /\ "posture_distribution" \in DOMAIN report
    /\ "trends" \in DOMAIN report
    /\ Len(all_recommendations(report["posture_distribution"], report["trends"])) = 11
    /\ Len(advice) = 6

\* A state that holds the results of process_complete_analysis(df).
Processed == op = "process_complete_analysis"

\* Both sensors report z = 9.8 and x = y = 0 in every sample.
Vertical(d) ==
    \A i \in 1..len(d) :
        /\ d.rows[i]["s1_accel_x"] = 0 /\ d.rows[i]["s1_accel_y"] = 0
        /\ d.rows[i]["s1_accel_z"] = Gravity
        /\ d.rows[i]["s2_accel_x"] = 0 /\ d.rows[i]["s2_accel_y"] = 0
        /\ d.rows[i]["s2_accel_z"] = Gravity

\* C6: when both sensors report vertical acceleration without variance and
\* process_complete_analysis returns, every sample of its output is labelled
\* good_posture with severity 0 and confidence 0.9.
C6_VerticalInputIsGoodPosture ==
    (Processed /\ raised = "none" /\ Vertical(df)) =>
        \A i \in 1..len(df_final) :
            /\ df_final.rows[i]["posture_label"] = "good_posture"
            /\ df_final.rows[i]["severity_score"] = 0
            /\ df_final.rows[i]["confidence"] = 9

\* What the code does with that input: the pitches, the curvatures and
\* spine_stability are 0, below stability_threshold, so every sample has the
\* one issue static_posture, confidence 0.8 and severity 0.
C6_VerticalInputIsStaticPosture ==
    (Processed /\ raised = "none" /\ Vertical(df)) =>
        \A i \in 1..len(df_final) :
            /\ df_final.rows[i]["s1_pitch"] = 0
            /\ df_final.rows[i]["spine_pitch_curvature"] = 0
            /\ df_final.rows[i]["spine_roll_curvature"] = 0
            /\ df_final.rows[i]["spine_stability"] = 0
            /\ df_final.rows[i]["posture_label"] = "static_posture"
            /\ df_final.rows[i]["severity_score"] = 0
            /\ df_final.rows[i]["confidence"] = 8

C6_Witness ==
    /\ Processed /\ raised = "none" /\ Vertical(df)
    /\ sample_rate = 1 /\ len(df) = 60 /\ len(df_final) = 60
    /\ df_final.rows[60]["posture_label"] = "static_posture"

\* The frames the stages of process_complete_analysis returned, in order.
StageFrames == <<df_clean, df_oriented, df_features, df_classified, df_final>>

\* Frame out has as many rows as frame d, and row i carries the timestamp of
\* sample i of d.
Aligned(d, out) ==
    /\ len(out) = len(d)
    /\ \A i \in 1..len(d) : out.rows[i]["timestamp"] = d.rows[i]["timestamp"]

\* C7: for every input series of length L every stage of
\* process_complete_analysis returns a series of L rows in the input order.
C7_EveryStageReturnsLRows ==
    Processed => \A k \in 1..Len(StageFrames) : Aligned(df, StageFrames[k])

\* The stages that return keep the rows: an input of L rows that passes the
\* low-pass filter comes out of every stage with L rows in the input order,
\* outliers replaced by the mean of their column.
C7_ReturningStagesKeepRows ==
    (Processed /\ raised = "none") =>
        \A k \in 1..Len(StageFrames) : Aligned(df, StageFrames[k])

C7_Witness ==
    /\ Processed /\ raised # "none"
    /\ len(df) = 12 /\ len(df_clean) = 0 /\ len(df_final) = 0

\* C8: for every series length L >= 0 process_complete_analysis returns
\* without an exception; a series too short for the smoothing filter or the
\* low-pass filter keeps its gyroscope samples, and a series too short for the
\* rolling features has all of them 0.
C8_Degraded ==
    /\ len(df) < 5 =>
        \A i \in 1..len(df) : \A c \in GyroColumns :
            df_clean.rows[i][c] = df.rows[i][c]
    /\ len(df) < 10 =>
        \A i \in 1..len(df) : \A c \in AdvancedColumns : df_features.rows[i][c] = 0
    /\ len(df) < 60 * sample_rate => "pattern_analysis" \in DOMAIN pattern_results

C8_NoExceptionForAnyLength ==
    Processed => (raised = "none" /\ C8_Degraded)

\* The series that pass the low-pass filter do degrade as described.
C8_DegradedWhenReturning ==
    (Processed /\ raised = "none") => C8_Degraded

\* Series of 9 to 15 rows at a sample rate whose Nyquist frequency is above
\* the cutoff: the guard of the low-pass filter lets them through and
\* filtfilt rejects them.
C8_RaisesExactlyBelowPadlen ==
    Processed =>
        (raised = "ValueError" <=>
            (lowpass_enabled(sample_rate)
             /\ len(df) > 2 * filter_params.order /\ len(df) <= filtfilt_padlen))

C8_Witness ==
    /\ Processed /\ sample_rate = 10 /\ len(df) = 10
    /\ raised = "ValueError"
    /\ df_clean = NoFrame

\* Trainings that have returned True.
CompletedTrainings ==
    IF pc[Trainer] = "idle" THEN 1..trainings ELSE 1..(trainings - 1)

\* C9: every predict_posture_ml call that runs while the instance is trained,
\* whatever other predictions and retraining run beside it, uses a scaler and
\* a model that come from one and the same completed training, and never
\* meets a model that is not fitted.
C9_InferenceUsesOneCompletedTraining ==
    \A p \in Predictors :
        LET r == inference[p]
        IN  /\ r.raised = "none"
            /\ r.scaler # 0 => r.scaler \in CompletedTrainings
            /\ r.predict # 0 => r.predict = r.scaler
            /\ r.predict_proba # 0 => r.predict_proba = r.predict

\* A prediction made with the scaler of the retraining in progress and the
\* model of the training before it.
C9_Witness ==
    \E p \in Predictors :
        /\ pc[p] = "done"
        /\ inference[p].raised = "none"
        /\ inference[p].scaler = 2
        /\ inference[p].predict = 1
        /\ inference[p].predict_proba = 1
        /\ is_trained

\* With no retraining after the first training has returned, every
\* prediction uses the scaler and the model of that training.
C9_ConsistentWithoutRetraining ==
    (trainings <= 1 /\ is_trained) =>
        \A p \in Predictors :
            LET r == inference[p]
            IN  /\ r.raised = "none"
                /\ r.scaler \in {0, 1}
                /\ r.predict \in {0, 1}
                /\ r.predict_proba \in {0, 1}

\* C11: the outlier step applied to its own output changes no value.
C11_OutlierStepIsIdempotent ==
    passes >= 1 => remove_outliers(channel) = channel

\* A channel that has been through the step once and that a second pass
\* changes: the sample that was replaced by the mean stands out again.
C11_Witness ==
    /\ passes = 1
    /\ Len(channel) = 12
    /\ remove_outliers(channel) # channel

\* A value is an outlier of channel x exactly when n >= 2 and it is farther
\* than 3 std from the mean.  One sample that differs from n - 1 equal ones is
\* (n - 1) / sqrt(n) std away, so it is replaced exactly when n >= 11, whatever
\* its size, and so is its replacement.
C11_SingleDeviantNeverSettles ==
    (passes >= 1 /\ Len(channel) >= 11
        /\ \E i \in 1..Len(channel) :
            /\ channel[i] # channel[IF i = 1 THEN 2 ELSE 1]
            /\ \A j, k \in 1..Len(channel) \ {i} : channel[j] = channel[k]
            /\ Abs(channel[i] - channel[IF i = 1 THEN 2 ELSE 1]) >= Len(channel))
    => remove_outliers(channel) # channel

\* The tier of a tilt criterion in row r: 0 not triggered, 1 mild, 2 severe.
Tier(c, r) ==
    CASE c = "s1_pitch" ->
            IF r[c] > 20 * Unit THEN 2 ELSE IF r[c] > 10 * Unit THEN 1 ELSE 0
      [] c = "spine_pitch_curvature" ->
            IF r[c] > 25 * Unit THEN 2 ELSE IF r[c] > 15 * Unit THEN 1 ELSE 0
      [] c = "spine_roll_curvature" ->
            IF Abs(r[c]) > 15 * Unit THEN 2 ELSE IF Abs(r[c]) > 8 * Unit THEN 1 ELSE 0

TiltValues(c) ==
    CASE c = "s1_pitch" -> PitchValues
      [] c = "spine_pitch_curvature" -> PitchCurvatureValues
      [] c = "spine_roll_curvature" -> RollCurvatureValues

\* severity_score of the one-row series <<r>>.
SeverityAlone(cols, r) ==
    classify_posture_realtime(Frame(cols, <<r>>)).rows[1]["severity_score"]

\* C12: for every classified sample, a sample that differs from it in one
\* tilt criterion only, at a tier at least as high (mild to severe, or not
\* triggered to triggered), has a severity_score at least as high.
C12_SeverityMonotonic ==
    Classified =>
        \A i \in 1..len(df) : \A c \in TiltColumns : \A v \in TiltValues(c) :
            LET r == df.rows[i]
                escalated == [r EXCEPT ![c] = v]
            IN  Tier(c, escalated) >= Tier(c, r) =>
                    SeverityAlone(df.columns, escalated)
                        >= df_classified.rows[i]["severity_score"]

\* A sample with mild hunched shoulders next to severe ones: 1 against 3.
C12_Witness ==
    /\ op = "classify_posture_realtime"
    /\ \E i \in 1..len(df) :
        LET r == df.rows[i]
        IN  /\ Tier("spine_pitch_curvature", r) = 1
            /\ Tier("s1_pitch", r) = 0 /\ Tier("spine_roll_curvature", r) = 0
            /\ df_classified.rows[i]["severity_score"] = 1
            /\ SeverityAlone(df.columns,
                   [r EXCEPT !["spine_pitch_curvature"] = 25 * Unit + 1]) = 3

\* label, severity and confidence of a classified row
Verdict(row) ==
    <<row["posture_label"], row["severity_score"], row["confidence"]>>

\* The four values of row r the classification reads, those that df has.
ClassifierInputs == TiltColumns \cup {"spine_stability"}

Projection(cols, r) == [k \in cols \cap ClassifierInputs |-> r[k]]

\* C13: row i of the classified series carries row i of the input unchanged,
\* and its label, severity and confidence are those the classifier gives to
\* a one-row series holding only that row's s1_pitch, spine_pitch_curvature,
\* spine_roll_curvature and spine_stability: they depend on nothing else in
\* the series or in earlier calls, and no call changes the instance.
C13_RowVerdictDependsOnRowOnly ==
    /\ [](Classified =>
            /\ len(df_classified) = len(df)
            /\ \A i \in 1..len(df) :
                /\ \A k \in df.columns : df_classified.rows[i][k] = df.rows[i][k]
                /\ Verdict(df_classified.rows[i])
                     = Verdict(classify_posture_realtime(
                           Frame(df.columns \cap ClassifierInputs,
                                 <<Projection(df.columns, df.rows[i])>>)).rows[1]))
    /\ [][UNCHANGED instance]_vars

\* The second call on an instance: a series whose last row differs from the
\* rows before it, and is classified differently from them.
C13_Witness ==
    /\ op = "classify_posture_realtime"
    /\ len(df) = 2
    /\ df.rows[1] # df.rows[2]
    /\ Verdict(df_classified.rows[1]) = <<"multiple_issues", 8, 7>>
    /\ Verdict(df_classified.rows[2]) = <<"static_posture", 0, 8>>

\* training_data lacks what training needs: fewer than 5 of the 10 feature
\* columns, no posture_label column, or fewer than 100 rows.
Untrainable(data) ==
    \/ Cardinality(feature_columns \cap data.columns) < 5
    \/ "posture_label" \notin data.columns
    \/ data.len < 100

\* C14: a train_ml_model call on a corpus with fewer than 5 feature columns,
\* without posture_label or with fewer than 100 rows returns False and leaves
\* ml_model, scaler and is_trained as they were; is_trained becomes True only
\* in a call that returns True, and a call returns True only from a corpus
\* that has all three.
C14_TrainingSucceedsOnlyFromLabelledCorpus ==
    [][/\ (op = "idle" /\ op' = "train_ml_model") =>
            /\ Untrainable(training'.data) =>
                  /\ training'.returned = "False"
                  /\ UNCHANGED <<ml_model, scaler, is_trained>>
            /\ training'.returned = "True" =>
                  (~Untrainable(training'.data) /\ is_trained')
       /\ (is_trained' /\ ~is_trained) =>
            (op' = "train_ml_model" /\ training'.returned = "True")]_vars

\* A corpus of 99 rows refused on an instance that was trained before.
C14_Witness ==
    /\ op = "train_ml_model"
    /\ training.returned = "False"
    /\ training.data.len = 99
    /\ "posture_label" \in training.data.columns
    /\ feature_columns \subseteq training.data.columns
    /\ is_trained /\ ml_model.trained_by = 1 /\ scaler.fitted_by = 1

\* The frame given to inference lacks columns the stage requires.
LacksColumns(d) ==
    \/ Cardinality(feature_columns \cap d.columns) < 5
    \/ feature_columns \cap d.columns # scaler.features

\* C15: training on a frame with fewer than 5 feature columns returns False;
\* inference on a trained instance with a frame that has fewer than 5 feature
\* columns, or other feature columns than the model was fitted on, returns the
\* input unmodified; no exception leaves either of them, and
\* process_complete_analysis completes.
C15_MissingColumnsSkipTheStage ==
    /\ (op = "train_ml_model"
            /\ Cardinality(feature_columns \cap training.data.columns) < 5) =>
          training.returned = "False"
    /\ (op = "predict_posture_ml" /\ is_trained /\ LacksColumns(df)) =>
          (raised = "none" /\ df_final = df)
    /\ Processed => raised = "none"

\* Inference with ten feature columns on a model fitted on five.
C15_Witness ==
    /\ op = "predict_posture_ml"
    /\ is_trained /\ scaler.features = FiveFeatures
    /\ feature_columns \subseteq df.columns
    /\ raised = "ValueError"
    /\ df_final = NoFrame

\* Fewer than 5 feature columns do skip the stage, in training and in
\* inference; the exception comes exactly when the frame has at least 5
\* feature columns and they are not those the scaler was fitted on.
C15_RaisesExactlyOnOtherColumns ==
    /\ (op = "train_ml_model"
            /\ Cardinality(feature_columns \cap training.data.columns) < 5) =>
          training.returned = "False"
    /\ op = "predict_posture_ml" =>
          /\ raised \in {"none", "ValueError"}
          /\ raised = "ValueError" <=>
                (is_trained /\ Cardinality(feature_columns \cap df.columns) >= 5
                     /\ feature_columns \cap df.columns # scaler.features)
          /\ raised = "none" /\ (~is_trained \/ LacksColumns(df)) => df_final = df
    /\ Processed =>
          (raised = "ValueError" <=> (is_trained /\ scaler.features # feature_columns))

\* C16: on an instance that has not completed a training, after failed
\* training attempts or none, predict_posture_ml returns its input as it is
\* and process_complete_analysis returns the classified series, without
\* ml_prediction and ml_confidence.
C16_UntrainedPassThrough ==
    ~is_trained =>
        /\ trainings = 0 /\ ml_model = NoModel /\ scaler = NewScaler
        /\ op = "predict_posture_ml" => (raised = "none" /\ df_final = df)
        /\ Processed =>
              /\ raised = "none"
              /\ df_final = df_classified
              /\ {"ml_prediction", "ml_confidence"} \cap df_final.columns = {}
        /\ op = "train_ml_model" => training.returned = "False"

\* A prediction asked of an instance whose only training attempt failed.
C16_Witness ==
    /\ ~is_trained
    /\ training.returned = "False"
    /\ op = "predict_posture_ml"
    /\ feature_columns \subseteq df.columns
    /\ len(df) = 1
    /\ df_final = df

\* C17: the constructor raises for every sample_rate <= 0, so every instance
\* a method runs on has a positive sample_rate.
C17_NoInstanceWithNonPositiveRate ==
    op # "unconstructed" => sample_rate > 0

\* A series classified by an instance constructed with sample_rate = -10.
C17_Witness ==
    /\ op = "classify_posture_realtime"
    /\ sample_rate = -10
    /\ len(df_classified) = 2

\* The constructor raises for sample_rate = 0 and for no other value.
C17_OnlyZeroRaises ==
    /\ op # "unconstructed" => sample_rate # 0
    /\ (op = "unconstructed" /\ raised # "none") =>
          (sample_rate = 0 /\ raised = "ZeroDivisionError")

\* C18: the pattern result process_complete_analysis returns has a
\* 'pattern_analysis' entry and a 'recommendations' entry for every input
\* length.
C18_PatternResultHasBothEntries ==
    (Processed /\ raised = "none") =>
        {"pattern_analysis", "recommendations"} \subseteq DOMAIN pattern_results

\* One minute of data: the result has recommendations and no pattern_analysis.
C18_Witness ==
    /\ Processed /\ raised = "none"
    /\ len(df) = 60 * sample_rate
    /\ "recommendations" \in DOMAIN pattern_results
    /\ "pattern_analysis" \notin DOMAIN pattern_results

\* 'recommendations' is in every result; 'pattern_analysis' only in the
\* result for less than one minute of data.
C18_PatternAnalysisOnlyWhenInsufficient ==
    (Processed /\ raised = "none") =>
        /\ "recommendations" \in DOMAIN pattern_results
        /\ "pattern_analysis" \in DOMAIN pattern_results
               <=> len(df) < 60 * sample_rate

\* A step of the collection that read a line.
ReadStep == reads' = reads + 1

\* Every field of the line read is a float literal and there are 15 of them.
Wellformed(l) ==
    /\ l.utf8
    /\ Len(strip(l.fields)) = 15
    /\ \A i \in 1..15 : strip(l.fields)[i] \in {"0", "1.5", "-9.81", "nan"}

\* What the line read becomes in data_buffer: the field at position i as a
\* number.
RecordOf(l) == parse(strip(l.fields)).data

\* C19: every record of data_buffer has 15 numeric fields; a line read is
\* appended to data_buffer, and written to the CSV file when there is one,
\* exactly when it has 15 fields that all parse as numbers; any other line
\* leaves data_buffer and the file as they were and the collection goes on.
C19_OnlyWellformedLinesAreBuffered ==
    /\ [](\A k \in 1..Len(data_buffer) : Len(data_buffer[k]) = 15)
    /\ [][ReadStep =>
            IF Wellformed(line')
                THEN /\ Len(data_buffer') >= 1
                     /\ data_buffer'[Len(data_buffer')] = RecordOf(line')
                     /\ collection.save_to_csv =>
                            csvfile' = Append(csvfile, RecordOf(line'))
                     /\ is_collecting'
                ELSE /\ data_buffer' = data_buffer
                     /\ csvfile' = csvfile
                     /\ is_collecting']_vars

\* A line of bytes that are not UTF-8 read after a record: the record stays
\* in data_buffer and the collection has ended.
C19_Witness ==
    /\ ~line.utf8
    /\ collection.raised = "UnicodeDecodeError"
    /\ ~is_collecting
    /\ Len(data_buffer) = 1

\* What the code keeps: data_buffer and the file change only by a record of
\* 15 numbers; a line that decodes and is no such record is skipped and the
\* collection goes on; a line that does not decode ends the collection.
C19_BufferHoldsRecordsOf15Numbers ==
    /\ [](\A k \in 1..Len(data_buffer) : Len(data_buffer[k]) = 15)
    /\ [][ReadStep =>
            /\ Wellformed(line') =>
                  /\ data_buffer'[Len(data_buffer')] = RecordOf(line')
                  /\ collection.save_to_csv =>
                         csvfile' = Append(csvfile, RecordOf(line'))
            /\ ~Wellformed(line') =>
                  (data_buffer' = data_buffer /\ csvfile' = csvfile)
            /\ is_collecting' <=> line'.utf8]_vars

\* The movement issues.
MovementIssues == {"excessive_movement", "static_posture"}

\* C20: a sample whose spine_stability is above 3 or below 2 and that
\* triggers no tilt criterion has severity 0, the label excessive_movement
\* or static_posture and confidence 0.8; with a tilt criterion triggered as
\* well it is multiple_issues with confidence 0.7 and the severity of the
\* tilt criteria alone.  No sample has more than one movement issue.
C20_MovementRegistersWithoutSeverity ==
    (Classified /\ "spine_stability" \in df.columns) =>
        \A i \in 1..len(df) :
            LET r == df.rows[i]
                out == df_classified.rows[i]
                above == r["spine_stability"] > 3 * Unit
                below == r["spine_stability"] < 2 * Unit
                tilted == \E c \in TiltColumns : Tier(c, r) > 0
                issues == posture_issues(df.columns, r)
            IN  /\ ((above \/ below) /\ ~tilted) =>
                        Verdict(out) = <<IF above THEN "excessive_movement"
                                                  ELSE "static_posture", 0, 8>>
                /\ ((above \/ below) /\ tilted) =>
                        /\ out["posture_label"] = "multiple_issues"
                        /\ out["confidence"] = 7
                        /\ out["severity_score"]
                             = SeverityAlone(TiltColumns, [k \in TiltColumns |-> r[k]])
                /\ Cardinality({k \in 1..Len(issues) : issues[k] \in MovementIssues}) <= 1

\* Excessive movement alone, after a row with excessive movement and every
\* tilt criterion severe.
C20_Witness ==
    /\ op = "classify_posture_realtime"
    /\ len(df) = 2
    /\ "spine_stability" \in df.columns
    /\ Verdict(df_classified.rows[1]) = <<"multiple_issues", 8, 7>>
    /\ df.rows[1]["spine_stability"] > 3 * Unit
    /\ Verdict(df_classified.rows[2]) = <<"excessive_movement", 0, 8>>

\* The s1_pitch values the trend is fitted on: the trailing window of df.
C10_Window ==
    LET n == Min(5 * 60 * sample_rate, len(df))
    IN  [i \in 1..n |-> df.rows[len(df) - n + i]["s1_pitch"]]

C10_Analyzed ==
    /\ op = "analyze_patterns"
    /\ len(df) >= 60 * sample_rate
    /\ "s1_pitch" \in df.columns

C10_Steps == {C10_Window[i + 1] - C10_Window[i] : i \in 1..(Len(C10_Window) - 1)}

\* C10 as claimed: a strictly increasing s1_pitch is reported 'worsening', a
\* strictly decreasing one 'improving', a constant one 'stable', whatever the
\* size of the step.
C10_TrendSignForAnyStep ==
    C10_Analyzed =>
        LET t == pattern_results["trends"]["forward_head_trend"]
            steps == C10_Steps
        IN  /\ (\A d \in steps : d > 0) => t = "worsening"
            /\ (\A d \in steps : d < 0) => t = "improving"
            /\ steps = {0} => t = "stable"

\* C10 amended: s1_pitch rising by more than 0.01 degree at every step of the
\* window is reported 'worsening', falling by more than 0.01 at every step
\* 'improving', constant 'stable'; rising or falling by at most 0.01 at every
\* step is reported 'stable'.
C10_TrendSignBeyondThreshold ==
    C10_Analyzed =>
        LET t == pattern_results["trends"]["forward_head_trend"]
            steps == C10_Steps
        IN  /\ (\A d \in steps : d > Hundredth) => t = "worsening"
            /\ (\A d \in steps : d < -Hundredth) => t = "improving"
            /\ steps = {0} => t = "stable"
            /\ (\A d \in steps : d > 0 /\ d <= Hundredth) => t = "stable"
            /\ (\A d \in steps : d < 0 /\ d >= -Hundredth) => t = "stable"

\* C10 witness: a series longer than the five-minute window, rising by more
\* than 0.01 at every step, reported 'worsening'.
C10_Witness ==
    /\ C10_Analyzed
    /\ len(df) > 5 * 60 * sample_rate
    /\ \A d \in C10_Steps : d > Hundredth
    /\ pattern_results["trends"]["forward_head_trend"] = "worsening"

\* The rule an advice string belongs to: 1 forward head, 2 hunched, 3 side
\* lean, 4 movement, 5 overall score, 6 trend commentary.
Priority(text) ==
    CASE text \in {"Forward Head Posture Alert: Adjust monitor height to eye level",
                   "Exercise: Chin tucks (10 reps every hour)",
                   "Trend Alert: Forward head posture is getting worse - take immediate action!"} -> 1
      [] text \in {"Hunched Shoulders Detected: Focus on shoulder blade squeezes",
                   "Stretching: Doorway chest stretch (30 seconds, 3 times)"} -> 2
      [] text \in {"Side Lean Detected: Check chair height and desk setup",
                   "Exercise: Side planks for core strengthening"} -> 3
      [] text \in {"Movement Alert: Take a 2-minute movement break every 30 minutes",
                   "Set hourly reminders to change position",
                   "Consider if discomfort is causing excessive movement",
                   "Check ergonomic setup - chair and desk height"} -> 4
      [] text \in {"Excellent work! Maintain current habits",
                   "Good progress - minor adjustments needed",
                   "Significant improvement needed - consider ergonomic assessment"} -> 5
      [] text \in {"Great news! Your posture is improving over time",
                   "Warning: Posture declining - review workspace setup"} -> 6
      [] OTHER -> 0

\* The share of the labels of one rule in a distribution.
Share(posture_dist, labels) ==
    LET a == Get(posture_dist, labels[1], Rat(0, 1))
        b == Get(posture_dist, labels[2], Rat(0, 1))
    IN  RatAdd(a, b)

\* advice is what the claim expects from a report rep that has a distribution.
PrefixInPriorityOrder(rep, adv) ==
    LET dist == rep["posture_distribution"]
        full == all_recommendations(dist, Get(rep, "trends", EmptyDict))
        three == /\ RatGt(Share(dist, <<"severe_forward_head", "mild_forward_head">>), 30)
                 /\ RatGt(Share(dist, <<"severe_hunched", "mild_hunched">>), 25)
                 /\ RatGt(Share(dist, <<"severe_side_lean", "mild_side_lean">>), 20)
    IN  /\ Len(adv) = Min(6, Len(full))
        /\ \A i \in 1..Len(adv) : adv[i] = full[i] /\ Priority(adv[i]) \in 1..6
        /\ \A i \in 1..Len(adv), j \in 1..Len(adv) :
               i < j => Priority(adv[i]) <= Priority(adv[j])
        /\ \A i \in 1..Len(adv), k \in 1..Len(full) :
               Priority(full[k]) < Priority(adv[i]) =>
                   \E j \in 1..Len(adv) : adv[j] = full[k]
        /\ three => \A i \in 1..Len(adv) : Priority(adv[i]) \notin {5, 6}

\* C21: generate_recommendations returns the first min(6, n) of the n advice
\* strings generated, in the order forward head, hunched, side lean,
\* movement, overall score, trend: an entry of a later rule is returned only
\* with every generated entry of the earlier rules, and when the first three
\* rules all fire no overall-score or trend entry is returned.
C21_FirstSixInPriorityOrder ==
    /\ (op = "generate_recommendations" /\ "posture_distribution" \in DOMAIN report) =>
           PrefixInPriorityOrder(report, advice)
    /\ (op = "analyze_patterns" /\ "posture_distribution" \in DOMAIN pattern_results) =>
           PrefixInPriorityOrder(pattern_results, pattern_results["recommendations"])

\* C21 witness: the first three rules fire, overall-score and trend entries
\* are generated, and the six entries returned are those of the three rules.
C21_Witness ==
    /\ op = "generate_recommendations"
    /\ "posture_distribution" \in DOMAIN report
    /\ "trends" \in DOMAIN report
    /\ LET full == all_recommendations(report["posture_distribution"], report["trends"])
       IN  /\ Len(full) >= 8
           /\ \E k \in 1..Len(full) : Priority(full[k]) = 5
           /\ \E k \in 1..Len(full) : Priority(full[k]) = 6
    /\ Len(advice) = 6
    /\ Priority(advice[1]) = 1
    /\ Priority(advice[6]) = 3

\* The feature stage of process_complete_analysis has returned.
C22_Extracted ==
    /\ op = "process_complete_analysis"
    /\ df_features # NoFrame

\* The samples the window of row i holds: rows i - window + 1 .. i.
C22_SamplesInWindow(i) == Min(i, window_samples(df_oriented, sample_rate))

C22_AllZero(i, cols) == \A k \in cols : df_features.rows[i][k] = 0

\* C22: every rolling feature is 0 at every row whose window holds fewer
\* than 5 samples, and at every row of a series of fewer than 10 samples.
C22_ZeroBelowFiveSamples ==
    C22_Extracted =>
        /\ \A i \in 1..len(df_features) :
               C22_SamplesInWindow(i) < 5 => C22_AllZero(i, AdvancedColumns)
        /\ len(df_features) < 10 =>
               \A i \in 1..len(df_features) : C22_AllZero(i, AdvancedColumns)

\* A series of at least 10 samples whose third row has a pitch velocity other
\* than 0 and whose first row has a cumulative rotation other than 0, while
\* the variability and stability of both rows are 0.
C22_Witness ==
    /\ C22_Extracted
    /\ len(df_features) >= 10
    /\ df_features.rows[3]["s1_pitch_velocity"] # 0
    /\ df_features.rows[3]["s1_pitch_acceleration"] # 0
    /\ df_features.rows[1]["s1_cumulative_rotation"] # 0
    /\ C22_AllZero(3, {"s1_movement_variability", "s2_movement_variability", "spine_stability"})

\* What the code keeps: the three rolling standard deviations are 0 below 5
\* samples, velocity and acceleration below 3 samples (two differences),
\* and every feature is 0 in a series of fewer than 10 samples.
C22_ZeroBelowMinPeriods ==
    C22_Extracted =>
        /\ \A i \in 1..len(df_features) :
               /\ C22_SamplesInWindow(i) < 5 =>
                      C22_AllZero(i, {"s1_movement_variability", "s2_movement_variability",
                                      "spine_stability"})
               /\ i < 3 => C22_AllZero(i, {"s1_pitch_velocity", "s2_pitch_velocity",
                                           "s1_pitch_acceleration", "s2_pitch_acceleration"})
        /\ len(df_features) < 10 =>
               \A i \in 1..len(df_features) : C22_AllZero(i, AdvancedColumns)

\* The three columns the rule classifier writes.
RuleOutputs == {"posture_label", "severity_score", "confidence"}

\* What an instance that was never trained returns for the same df.
C23_Untrained == process_complete_analysis(df, sample_rate, FALSE, NoModel, NewScaler)

\* The final series is the classified series with the two columns added.
C23_OnlyPredictionsAdded ==
    /\ df_final # NoFrame
    /\ df_final.columns = df_classified.columns \cup {"ml_prediction", "ml_confidence"}
    /\ len(df_final) = len(df_classified)
    /\ \A i \in 1..len(df_classified) : \A k \in df_classified.columns :
           df_final.rows[i][k] = df_classified.rows[i][k]
    /\ RuleOutputs \subseteq df_classified.columns

\* C23: process_complete_analysis on a trained instance returns the
\* classified series with ml_prediction and ml_confidence added and nothing
\* else changed, and the pattern report an untrained instance returns for the
\* same input.
C23_LearnedStageOnlyAddsColumns ==
    (Processed /\ is_trained) =>
        /\ raised = "none"
        /\ C23_OnlyPredictionsAdded
        /\ df_classified = C23_Untrained.df_classified
        /\ pattern_results = C23_Untrained.pattern_results

\* The pipeline on an instance trained on five columns: ValueError leaves
\* the call, where an untrained instance returns a series and a report.
C23_Witness ==
    /\ Processed /\ is_trained
    /\ scaler.features = FiveFeatures
    /\ len(df) = 5
    /\ raised = "ValueError"
    /\ df_final = NoFrame
    /\ C23_Untrained.raised = "none"
    /\ len(C23_Untrained.df_final) = 5

\* The pipeline on an instance trained on ten columns: five rows returned
\* with the predictions of that training added to the classified series.
C23_TenColumnsReturn ==
    /\ Processed /\ is_trained
    /\ scaler.features = feature_columns
    /\ raised = "none"
    /\ len(df_final) = 5
    /\ C23_OnlyPredictionsAdded
    /\ df_final.rows[5]["ml_prediction"] = <<"predict", ml_model.trained_by, scaler.fitted_by>>
    /\ C23_Untrained.raised = "none"

\* What the code keeps: when the pipeline of a trained instance returns, it
\* returns the classified series with the two columns added and the report of
\* an untrained instance; it returns exactly when the model was fitted on
\* the ten feature columns, and raises ValueError otherwise.
C23_OnlyAddsColumnsWhenReturning ==
    (Processed /\ is_trained) =>
        /\ raised = "none" <=> scaler.features = feature_columns
        /\ raised = "none" =>
              /\ C23_OnlyPredictionsAdded
              /\ df_classified = C23_Untrained.df_classified
              /\ pattern_results = C23_Untrained.pattern_results
        /\ raised # "none" => (raised = "ValueError" /\ df_final = NoFrame)

\* analyze_patterns has gone past the check for one minute of data.
C24_Analyzed ==
    /\ op = "analyze_patterns"
    /\ len(df) >= 60 * sample_rate

\* The least-squares slope of column c of df against the sample index, over
\* the trailing min(5 x 60 x sample_rate, L) rows.
C24_Slope(c) ==
    LET n == Min(5 * 60 * sample_rate, len(df))
    IN  polyfit_slope([i \in 1..n |-> df.rows[len(df) - n + i][c]])

\* slope < -0.01, slope > 0.01
C24_Below(slope) == slope.num < -(Hundredth * slope.den)

C24_Above(slope) == slope.num > Hundredth * slope.den

C24_TrendOf(key, c) ==
    IF c \in df.columns
        THEN LET t == pattern_results["trends"][key]
             IN  /\ t \in {"improving", "worsening", "stable"}
                 /\ t = "improving" <=> C24_Below(C24_Slope(c))
                 /\ t = "worsening" <=> C24_Above(C24_Slope(c))
        ELSE key \notin DOMAIN pattern_results["trends"]

\* C24: forward_head_trend and spine_curvature_trend are 'improving' exactly
\* when the least-squares slope of s1_pitch, of spine_curvature_magnitude,
\* over the trailing min(5 x 60 x sample_rate, L) rows is below -0.01,
\* 'worsening' exactly when it is above 0.01 and 'stable' otherwise, slopes
\* of exactly -0.01 and 0.01 included.
C24_TrendThresholds ==
    C24_Analyzed =>
        /\ C24_TrendOf("forward_head_trend", "s1_pitch")
        /\ C24_TrendOf("spine_curvature_trend", "spine_curvature_magnitude")
        /\ pattern_results["total_samples"] = Min(5 * 60 * sample_rate, len(df))

\* C24 witness: a series one row longer than the window whose s1_pitch has
\* slope exactly 0.01 and whose curvature has slope exactly 0.01, both
\* reported 'stable'.
C24_Witness ==
    /\ C24_Analyzed
    /\ len(df) = 5 * 60 * sample_rate + 1
    /\ {"s1_pitch", "spine_curvature_magnitude"} \subseteq df.columns
    /\ C24_Slope("s1_pitch").num = Hundredth * C24_Slope("s1_pitch").den
    /\ pattern_results["trends"]["forward_head_trend"] = "stable"
    /\ pattern_results["trends"]["spine_curvature_trend"] = "stable"

\* The sum of spine_stability over the analysis window and the number of
\* rows of the window: the mean is their quotient, in units of 1 / Unit.
C25_Rows == Min(5 * 60 * sample_rate, len(df))

C25_Total ==
    Sum([i \in 1..C25_Rows |-> df.rows[len(df) - C25_Rows + i]["spine_stability"]],
        1, C25_Rows)

\* The regime the claim gives the mean.
C25_Regime ==
    CASE C25_Total > 4 * Unit * C25_Rows -> "highly_dynamic"
      [] C25_Total > 2 * Unit * C25_Rows /\ C25_Total <= 4 * Unit * C25_Rows -> "moderately_active"
      [] 2 * C25_Total >= Unit * C25_Rows /\ C25_Total <= 2 * Unit * C25_Rows -> "optimal"
      [] 2 * C25_Total < Unit * C25_Rows -> "too_static"

\* The movement entries of a list of advice.
C25_MovementAdvice(adv) == {adv[i] : i \in {j \in 1..Len(adv) : Priority(adv[j]) = 4}}

\* Movement advice is there only for the two regimes, and is the advice of
\* the regime.
C25_AdviceOnlyFor(pattern, adv) ==
    /\ C25_MovementAdvice(adv) # {} => pattern \in {"too_static", "highly_dynamic"}
    /\ pattern = "too_static" =>
           C25_MovementAdvice(adv) \subseteq
               {"Movement Alert: Take a 2-minute movement break every 30 minutes",
                "Set hourly reminders to change position"}
    /\ pattern = "highly_dynamic" =>
           C25_MovementAdvice(adv) \subseteq
               {"Consider if discomfort is causing excessive movement",
                "Check ergonomic setup - chair and desk height"}

\* C25: the movement pattern reported is highly_dynamic for a mean
\* spine_stability above 4, moderately_active above 2 up to 4, optimal from
\* 0.5 up to 2 and too_static below 0.5, one of them for every mean; movement
\* advice is generated only for too_static and highly_dynamic.
C25_MovementRegimePartition ==
    /\ (op = "analyze_patterns" /\ len(df) >= 60 * sample_rate
            /\ "spine_stability" \in df.columns) =>
           /\ "movement_pattern" \in DOMAIN pattern_results["trends"]
           /\ pattern_results["trends"]["movement_pattern"] = C25_Regime
           /\ C25_AdviceOnlyFor(C25_Regime, pattern_results["recommendations"])
    /\ (op = "generate_recommendations" /\ "posture_distribution" \in DOMAIN report) =>
           C25_AdviceOnlyFor(Get(Get(report, "trends", EmptyDict), "movement_pattern", "unknown"),
                             advice)

\* C25 witness: a mean of exactly 2 over the window is reported optimal and
\* no movement advice is given.
C25_Witness ==
    /\ op = "analyze_patterns"
    /\ len(df) >= 60 * sample_rate
    /\ {"spine_stability", "posture_label"} \subseteq df.columns
    /\ C25_Total = 2 * Unit * C25_Rows
    /\ pattern_results["trends"]["movement_pattern"] = "optimal"
    /\ C25_MovementAdvice(pattern_results["recommendations"]) = {}

\* A mean below 0.5 is reported too_static and the movement alert is given.
C25_TooStaticAdvised ==
    /\ op = "analyze_patterns"
    /\ len(df) >= 60 * sample_rate
    /\ {"spine_stability", "posture_label"} \subseteq df.columns
    /\ 2 * C25_Total = (Unit - 2) * C25_Rows
    /\ pattern_results["trends"]["movement_pattern"] = "too_static"
    /\ Cardinality(C25_MovementAdvice(pattern_results["recommendations"])) = 2

\* The labels of a sample with no tilt issue.
C26_SilentLabels == {"good_posture", "excessive_movement", "static_posture"}

\* C26: after classify_posture_realtime and generate_realtime_alert, no alert
\* is returned exactly when the label of the last sample is good_posture,
\* excessive_movement or static_posture; every other label comes with a
\* severity of at least 1, and a movement label is an issue of severity 0.
C26_NoAlertExactlyForSilentLabels ==
    (op = "generate_realtime_alert" /\ len(df_classified) > 0) =>
        LET latest == df_classified.rows[len(df_classified)]
        IN  /\ raised = "none"
            /\ alert = NoAlert <=> latest["posture_label"] \in C26_SilentLabels
            /\ latest["posture_label"] \notin C26_SilentLabels =>
                   latest["severity_score"] >= 1
            /\ latest["posture_label"] \in MovementIssues =>
                   (latest["severity_score"] = 0 /\ latest["confidence"] = 8)

\* C26 witness: the last sample is labelled excessive_movement and no alert
\* is returned.
C26_Witness ==
    /\ op = "generate_realtime_alert"
    /\ len(df_classified) = 2
    /\ df_classified.rows[2]["posture_label"] = "excessive_movement"
    /\ df_classified.rows[1]["posture_label"] = "multiple_issues"
    /\ alert = NoAlert

\* The last sample has a movement issue and a mild tilt issue: the label is
\* multiple_issues and a medium alert is returned.
C26_MultipleIssuesAlert ==
    /\ op = "generate_realtime_alert"
    /\ len(df_classified) > 0
    /\ LET latest == df_classified.rows[len(df_classified)]
       IN  /\ latest["posture_label"] = "multiple_issues"
           /\ latest["severity_score"] = 1
    /\ alert # NoAlert
    /\ alert.level = "medium"

\* A start_collection call returns in this step.
C27_Returns == collection.at # "returned" /\ collection'.at = "returned"

\* C27: when start_collection returns after connect_serial returned True,
\* is_collecting is False and the port is closed, whether the duration was
\* over, Ctrl+C was pressed, the CSV file could not be opened or the loop
\* raised; when connect_serial returns False the call sets no is_collecting,
\* opens no port and file and reads nothing.
C27_CollectionCleansUp ==
    /\ []((collection.at = "returned" /\ collection.connected) =>
              (~is_collecting /\ serial_connection = "closed"))
    /\ [][(is_collecting' /\ ~is_collecting) => collection'.connected]_vars
    /\ [][(C27_Returns /\ ~collection'.connected) =>
              UNCHANGED <<is_collecting, serial_connection, csvfile, data_buffer,
                          line, reads>>]_vars
    /\ [][reads' # reads =>
              (collection.at = "loop" /\ collection.connected /\ is_collecting)]_vars

\* C27 witness: the call returned by Ctrl+C in the loop after a record was
\* read; the flag is down and the port closed.
C27_Witness ==
    /\ collection.at = "returned"
    /\ collection.connected
    /\ collection.raised = "KeyboardInterrupt"
    /\ Len(data_buffer) = 1
    /\ ~is_collecting
    /\ serial_connection = "closed"

\* The call returned because the CSV file could not be opened.
C27_OpenFailed ==
    /\ collection.at = "returned"
    /\ collection.raised = "OSError"
    /\ ~is_collecting
    /\ serial_connection = "closed"

\* The one way out of the call that is no return: Ctrl+C between line 74 and
\* the try statement of line 80 leaves the flag up and the port open.
C27_LeftWithoutReturning ==
    /\ collection.at = "propagated"
    /\ is_collecting
    /\ serial_connection = "open"

\* The last n entries of a sequence.
LastOf(q, n) == SubSeq(q, Len(q) - n + 1, Len(q))

\* The records written to the CSV file of the collection, after its header.
C28_Written == Tail(csvfile)

\* A record was accepted in this step.
C28_Accepts == ReadStep /\ line'.utf8 /\ accepted(strip(line'.fields))

\* C28: data_buffer never holds more than buffer_size records; an accepted
\* record becomes the newest entry and pushes out the oldest of a full
\* buffer, the others keeping their order, and is written to the CSV file
\* when saving is on, so that the buffer ends with the last min(n,
\* buffer_size) of the n records accepted; get_dataframe returns None exactly
\* when the buffer is empty.
C28_BufferKeepsNewest ==
    /\ [](Len(data_buffer) <= BufferSize)
    /\ []((collection.at = "loop" /\ collection.save_to_csv) =>
            LET n == Len(C28_Written)
                k == Min(n, BufferSize)
            IN  /\ Len(data_buffer) >= k
                /\ LastOf(data_buffer, k) = LastOf(C28_Written, k))
    /\ [][C28_Accepts =>
            LET record == RecordOf(line')
                kept == Min(Len(data_buffer), BufferSize - 1)
            IN  /\ Len(data_buffer') = Min(Len(data_buffer) + 1, BufferSize)
                /\ data_buffer' = Append(LastOf(data_buffer, kept), record)
                /\ collection.save_to_csv => csvfile' = Append(csvfile, record)]_vars
    /\ [][dataframe' # dataframe =>
            /\ dataframe'.returned = "None" <=> Len(data_buffer) = 0
            /\ dataframe'.returned # "None" =>
                   /\ Len(dataframe'.rows) = Len(data_buffer)
                   /\ \A i \in 1..Len(data_buffer) :
                          SubSeq(dataframe'.rows[i], 1, 15) = data_buffer[i]]_vars

\* C28 witness: three records accepted in one collection with saving on; the
\* file has all three and the buffer the last two, in the order of arrival.
C28_Witness ==
    /\ collection.at = "loop"
    /\ collection.save_to_csv
    /\ Len(C28_Written) = BufferSize + 1
    /\ C28_Written[1] # C28_Written[2] /\ C28_Written[2] # C28_Written[3]
    /\ data_buffer = <<C28_Written[2], C28_Written[3]>>

\* get_dataframe on a buffer of two records returns both and the datetime
\* column; on the empty buffer it returns None.
C28_DataframeOfTwo ==
    /\ dataframe.returned = "DataFrame"
    /\ Len(dataframe.rows) = 2
    /\ Len(dataframe.columns) = 16

\* self.serial_connection is an open connection.
C29_Open == arduino_serial_connection.object /\ arduino_serial_connection.is_open

\* C29: arduino_port names a port exactly when serial_connection is an open
\* connection to that port, after connect_arduino calls that returned True
\* or False; compile_and_upload uploads to, and send_command writes to, the
\* port of an open connection only.
C29_PortNamesTheOpenConnection ==
    /\ arduino_port # "None" =>
           (C29_Open /\ arduino_serial_connection.port = arduino_port)
    /\ C29_Open => arduino_port = arduino_serial_connection.port
    /\ (tool.name = "compile_and_upload" /\ tool.upload # "not_run") =>
           (C29_Open /\ arduino_serial_connection.port = tool.port)
    /\ (tool.name = "send_command" /\ tool.wrote) => C29_Open

\* connect_arduino('COM9') returned False after connect_arduino('COM3') had
\* returned True: arduino_port is still COM3 and the connection to COM3 is
\* closed.
C29_Witness ==
    /\ tool.name = "connect_arduino"
    /\ tool.port = "COM9"
    /\ tool.returned = "False"
    /\ arduino_port = "COM3"
    /\ arduino_serial_connection = [object |-> TRUE, port |-> "COM3", is_open |-> FALSE]

\* An upload to the port of a closed connection.
C29_UploadToStalePort ==
    /\ tool.name = "compile_and_upload"
    /\ tool.upload = "0"
    /\ tool.port = "COM3"
    /\ ~C29_Open

\* What the code keeps: an open connection is a connection to arduino_port,
\* a port named without an open connection is the port of the connection
\* closed by a failed connect_arduino, and send_command writes only to an
\* open connection.
C29_OpenConnectionIsToArduinoPort ==
    /\ C29_Open => arduino_port = arduino_serial_connection.port
    /\ arduino_port # "None" =>
           (arduino_serial_connection.object
                /\ arduino_serial_connection.port = arduino_port)
    /\ (tool.name = "send_command" /\ tool.wrote) => C29_Open
    /\ [][(arduino_port' # "None" /\ ~C29_Open') =>
             (tool'.name = "connect_arduino" => tool'.returned = "False")]_vars

C30_Called == tool.name = "compile_and_upload"

\* C30: the upload command is run only after the compile command exited
\* with 0 and only with arduino_port set; it is not run when the compile
\* fails or when no port is connected; 'Success' is returned only when both
\* commands exited with 0.
C30_UploadOnlyCompiledAndConnected ==
    C30_Called =>
        /\ tool.upload # "not_run" => (tool.compile = "0" /\ arduino_port # "None")
        /\ (tool.compile # "0" \/ ~C29_Open) => tool.upload = "not_run"
        /\ tool.returned = "Success: Sketch compiled and uploaded" =>
               (tool.compile = "0" /\ tool.upload = "0")

\* 'Success' returned for an upload to COM3 while the connection to COM3 is
\* closed: the connect_arduino call before it had returned False.
C30_Witness ==
    /\ C30_Called
    /\ tool.compile = "0" /\ tool.upload = "0"
    /\ tool.returned = "Success: Sketch compiled and uploaded"
    /\ tool.port = "COM3" /\ arduino_port = "COM3"
    /\ arduino_serial_connection = [object |-> TRUE, port |-> "COM3", is_open |-> FALSE]

\* What the code keeps: the upload is run exactly when the compile command
\* exited with 0 and arduino_port is set, to that port; 'Success' is returned
\* exactly when both commands exited with 0.
C30_UploadExactlyCompiledAndPortSet ==
    C30_Called =>
        /\ tool.upload # "not_run" <=> (tool.compile = "0" /\ arduino_port # "None")
        /\ tool.upload # "not_run" => tool.port = arduino_port
        /\ tool.returned = "Success: Sketch compiled and uploaded" <=>
               (tool.compile = "0" /\ tool.upload = "0")
        /\ (tool.compile = "0" /\ arduino_port = "None") =>
               tool.returned = "Error: No Arduino port connected"

=============================================================================
